---- MODULE Spec2Model ----
(***************************************************************************)
(* State-machine model of the declaration generator of typed-factorio      *)
(* (generator/src/DefinitionsGenerator.ts) and of its helpers.             *)
(*                                                                         *)
(* Representation.  A dotted name ("defines.events.on_tick") is the        *)
(* sequence of its segments (<<"defines","events","on_tick">>), so that    *)
(* startsWith("defines."), indexOf(".") and lastIndexOf(".") are computed  *)
(* on the segments.  A syntax node of the TypeScript factory is a record   *)
(* of one fixed shape (Node); a node that belongs to the manual            *)
(* definitions is held in the statement list by reference (kind            *)
(* "ManualNode", name = its path in the store) and resolved when the file  *)
(* is printed, as the object reference is in the program.                  *)
(***************************************************************************)
EXTENDS Integers, Sequences, FiniteSets, TLC

\* ------------------------------------------------------------------ bounds
\* Order fields range over 0..MaxOrder.
MaxOrder == 1
\* Number of times generation is run over one loaded schema (SpecTwice).
MaxRuns == 2

\* ------------------------------------------------------------------ helpers
Range(s) == {s[i] : i \in 1..Len(s)}

Take(s, n) == SubSeq(s, 1, IF n < Len(s) THEN n ELSE Len(s))

RECURSIVE Concat(_)
Concat(ss) == IF ss = <<>> THEN <<>> ELSE Head(ss) \o Concat(Tail(ss))

RECURSIVE Filter(_, _)
Filter(P(_), s) ==
  IF s = <<>> THEN <<>>
  ELSE (IF P(Head(s)) THEN <<Head(s)>> ELSE <<>>) \o Filter(P, Tail(s))

\* Array.prototype.find: the first element satisfying P, as a sequence of
\* length 0 (undefined) or 1.
Find(P(_), s) == Take(Filter(P, s), 1)

\* ------------------------------------------------------------------ sorting
\* A comparator that orders by descending order field.
sortDescending(a, b) == b.order - a.order

\* The comparator handed to Array.prototype.sort.
sortByOrder(a, b) == a.order - b.order

\* Array.prototype.sort(cmp): a stable sort (ECMAScript 2019, V8 TimSort):
\* an element is placed after every element that does not compare greater.
RECURSIVE InsertSorted(_, _, _)
InsertSorted(cmp(_, _), s, x) ==
  IF s = <<>> THEN <<x>>
  ELSE IF cmp(Head(s), x) <= 0 THEN <<Head(s)>> \o InsertSorted(cmp, Tail(s), x)
  ELSE <<x>> \o s

RECURSIVE SortWith(_, _)
SortWith(cmp(_, _), s) ==
  IF s = <<>> THEN <<>>
  ELSE InsertSorted(cmp, SortWith(cmp, SubSeq(s, 1, Len(s) - 1)), s[Len(s)])

ArraySort(s) == SortWith(sortByOrder, s)

\* ------------------------------------------------------------------ nodes
\* A node made by ts.factory.  comments: the synthetic leading comments.
Node(kind, name) ==
  [kind |-> kind, name |-> name, mods |-> <<>>, opt |-> FALSE, num |-> -1,
   args |-> <<>>, members |-> <<>>, supers |-> <<>>, comments |-> <<>>]

NoNode == Node("none", <<>>)

TypeRef(name, args) == [Node("TypeReference", name) EXCEPT !.args = args]

\* genUtil Types.*: keyword types and string literal types.
TypesNumber == Node("NumberKeyword", <<>>)
TypesObject == Node("ObjectKeyword", <<>>)
TypesUnknown == Node("UnknownKeyword", <<>>)
TypesVoid == Node("VoidKeyword", <<>>)
TypesStringLiteral(s) == Node("StringLiteral", <<s>>)

\* A comment attached to a node: a section comment (createComment) or a
\* JSDoc block (addFakeJSDoc): the rewritten links of its text, the
\* documentation url and the tags.
Comment(kind, text) ==
  [kind |-> kind, text |-> text, links |-> <<>>, url |-> "", tags |-> <<>>]

createComment(text) ==
  [Node("EmptyStatement", <<>>) EXCEPT !.comments = <<Comment("line", text)>>]

\* The outcome of one mapping function: ok = FALSE when it throws (err is the
\* message); node = the node it returns; push = the statements it appended to
\* this.statements; warn = the warnings it logged; marks = the manual nodes it
\* wrote to (emitNode, comments); ent = its schema argument after the call.
Result(node, ent) ==
  [ok |-> TRUE, node |-> node, push |-> <<>>, warn |-> <<>>, marks |-> <<>>,
   ent |-> ent, err |-> ""]

Throw(msg, ent) == [Result(NoNode, ent) EXCEPT !.ok = FALSE, !.err = msg]

\* r2 evaluated after r1 returned: the effects accumulate in program order.
After(r1, r2) ==
  [r2 EXCEPT !.push = r1.push \o @, !.warn = r1.warn \o @, !.marks = r1.marks \o @]

\* r1; r2 -- r2 is not evaluated when r1 throws.
Then(r1, r2) == IF r1.ok THEN After(r1, r2) ELSE r1

WithEnt(r, ent) == [r EXCEPT !.ent = ent]

\* this.statements.push(r.node), the expression then having the value `node`.
PushedAs(r, node) ==
  IF r.ok THEN [r EXCEPT !.push = Append(@, r.node), !.node = node] ELSE r

Pushed(r) == PushedAs(r, NoNode)

\* list.map(F) evaluated left to right: nodes = the results so far, ents =
\* the elements after the calls; stops at the first call that throws.
ListResult(ents) ==
  [ok |-> TRUE, nodes |-> <<>>, push |-> <<>>, warn |-> <<>>, marks |-> <<>>,
   ents |-> ents, err |-> ""]

\* The list result after the call on element k returned r.
MapStep(acc, k, r) ==
  [acc EXCEPT !.ok = r.ok, !.err = r.err,
              !.nodes = IF r.ok /\ r.node.kind # "none" THEN Append(@, r.node) ELSE @,
              !.push = @ \o r.push, !.warn = @ \o r.warn,
              !.marks = @ \o r.marks, !.ents[k] = r.ent]

RECURSIVE MapFrom(_, _, _)
MapFrom(F(_), acc, k) ==
  IF k > Len(acc.ents) \/ ~acc.ok THEN acc
  ELSE MapFrom(F, MapStep(acc, k, F(acc.ents[k])), k + 1)

MapAll(F(_), s) == MapFrom(F, ListResult(s), 1)

\* list.sort(sortByOrder).map(F): the list is sorted in place first.
SortMap(F(_), s) == MapAll(F, ArraySort(s))

\* The result of an expression built from a mapped list: its node is made
\* from the nodes, its schema argument holds the elements after the calls.
Listed(list, node, ent) ==
  [Result(node, ent) EXCEPT !.ok = list.ok, !.err = list.err, !.push = list.push,
                            !.warn = list.warn, !.marks = list.marks]

Made(list, D(_), E(_)) == Listed(list, D(list.nodes), E(list.ents))

\* ------------------------------------------------------------------ names
\* The JavaScript string of a dotted name.
RECURSIVE Join(_)
Join(n) ==
  IF n = <<>> THEN ""
  ELSE IF Len(n) = 1 THEN n[1]
  ELSE n[1] \o "." \o Join(Tail(n))

\* name + s and s + name (string concatenation on the last / first segment).
Suffixed(n, s) == IF n = <<>> THEN <<s>> ELSE [n EXCEPT ![Len(n)] = @ \o s]
Prefixed(s, n) == IF n = <<>> THEN <<s>> ELSE [n EXCEPT ![1] = s \o @]

\* name.startsWith("defines.")
StartsWithDefines(n) == Len(n) > 1 /\ n[1] = "defines"

\* genUtil.toPascalCase on the identifiers of the modelled schemas.
toPascalCase(s) ==
  CASE s = "on_tick" -> "OnTick"
    [] s = "on_built" -> "OnBuilt"
    [] s = "on_died" -> "OnDied"
    [] s = "item" -> "Item"
    [] s = "fluid" -> "Fluid"
    [] s = "lamp" -> "Lamp"
    [] s = "signal" -> "Signal"
    [] s = "set_filter" -> "SetFilter"
    [] s = "create" -> "Create"
    [] OTHER -> s

\* name.endsWith("Event") / reference.endsWith("ControlBehavior") /
\* name.includes("-") on the identifiers of the modelled schemas.
EndsWithEvent(s) == s \in {"CustomInputEvent"}
EndsWithControlBehavior(s) == s \in {"LuaLampControlBehavior"}
IncludesHyphen(s) == s \in {"by-player", "show-all"}

\* DefinitionsGenerator.getMappedEventName
getMappedEventName(event) ==
  LET name == toPascalCase(event.name[1])
  IN <<IF EndsWithEvent(name) THEN name ELSE name \o "Event">>

\* ------------------------------------------------------------------ schema
\* A description string: text = it is not empty; links = its inline links
\* [label](target); quoted = its quoted tokens, in order of occurrence.
Desc(links, quoted) == [text |-> TRUE, links |-> links, quoted |-> quoted]
NoDesc == [text |-> FALSE, links |-> <<>>, quoted |-> <<>>]
Text == Desc(<<>>, <<>>)

\* An inline link: href = "http" (absolute), "html" (a page of the
\* documentation) or "ref" (a reference); target::field, where field is
\* "operator <operator>" when operator is not empty.
Link(label, href, target, field, operator) ==
  [label |-> label, href |-> href, target |-> target, field |-> field,
   operator |-> operator]

\* A type expression: complex_type = "" for a name (a JavaScript string).
\* args: options | <<value>> | <<key, value>> | the parameter types of a
\* function; parameters and groups: those of complex_type "table".
TName(name) ==
  [complex_type |-> "", name |-> name, args |-> <<>>, parameters |-> <<>>,
   groups |-> FALSE]
TComplex(ct, args) ==
  [complex_type |-> ct, name |-> <<>>, args |-> args, parameters |-> <<>>,
   groups |-> FALSE]
TTable(parameters, groups) ==
  [complex_type |-> "table", name |-> <<>>, args |-> <<>>,
   parameters |-> parameters, groups |-> groups]

Parameter(name, order, type, optional, description) ==
  [name |-> name, order |-> order, type |-> type, optional |-> optional,
   description |-> description]

\* ------------------------------------------------------------------ manual definitions
\* An entry of the manual definitions (RootDef / AnyDef) or one of its
\* members: kind = "interface" | "type" | "namespace" | "enum" for a
\* definition, the syntax kind for a member of an interface.  supertypes are
\* ExpressionWithTypeArguments nodes; indexOperator = "" when there is none,
\* else its syntax kind; emitNode and comments are what the generator writes
\* on the node; jsDoc = the source carries a JSDoc block for it.
Def(name, kind, members) ==
  [name |-> name, kind |-> kind, members |-> members, supertypes |-> <<>>,
   indexOperator |-> "", typeParameters |-> <<>>, emitNode |-> FALSE,
   comments |-> <<>>, jsDoc |-> FALSE]

\* container.members[name] / this.manualDefinitions[name]: a sequence of
\* length 0 (undefined) or 1.
Lookup(defs, name) == Find(LAMBDA d: d.name = name, defs)

\* A reference to the node of the manual definition at `path`.
ManualNode(path) == Node("ManualNode", path)

\* A write to the manual node at `path`: emitNode is set and the comments
\* are appended (ts.addSyntheticLeadingComment).
Mark(path, comments) == [path |-> path, comments |-> comments]

RECURSIVE ApplyMark(_, _)
ApplyMark(defs, mark) ==
  [i \in 1..Len(defs) |->
     IF defs[i].name # <<Head(mark.path)>> THEN defs[i]
     ELSE IF Len(mark.path) = 1
       THEN [defs[i] EXCEPT !.emitNode = TRUE, !.comments = @ \o mark.comments]
       ELSE [defs[i] EXCEPT
               !.members = ApplyMark(@, [mark EXCEPT !.path = Tail(@)])]]

RECURSIVE ApplyMarks(_, _)
ApplyMarks(defs, marks) ==
  IF marks = <<>> THEN defs
  ELSE ApplyMarks(ApplyMark(defs, Head(marks)), Tail(marks))


\* ------------------------------------------------------------------ documentation
\* The text of an inline link as written in the description.
OrigLink(l) == Join(l.target) \o (IF l.field = "" THEN "" ELSE "::" \o l.field)

\* processDescription.mapLink on a link without "::" (also the recursive
\* call on the part before "::").
mapLinkName(this, href, target) ==
  IF href = "http" THEN [to |-> Join(target), warn |-> <<>>]
  ELSE IF href = "html" THEN [to |-> this.docUrlBase \o Join(target), warn |-> <<>>]
  ELSE IF target \in DOMAIN this.typeNames
    THEN [to |-> Join(this.typeNames[target]), warn |-> <<>>]
  ELSE [to |-> Join(target),
        warn |-> <<"unresolved doc reference: " \o Join(target)>>]

\* The reference to a field of the class that `clazz` maps to.
fieldRef(l, clazz) ==
  [ok |-> l.operator \in {"", "#", "[]", "()"},
   to |-> clazz.to \o (IF l.operator = "" THEN "." \o l.field
                       ELSE IF l.operator = "#" THEN ".length"
                       ELSE ""),
   warn |-> clazz.warn,
   err |-> IF l.operator \in {"", "#", "[]", "()"} THEN ""
           ELSE "Unknown operator " \o l.operator]

\* The link that maps to m.
linkTo(m) == [ok |-> TRUE, to |-> m.to, warn |-> m.warn, err |-> ""]

mapLink(this, l) ==
  IF l.field = "" THEN linkTo(mapLinkName(this, l.href, l.target))
  ELSE IF l.href = "http" THEN
    [ok |-> TRUE, to |-> OrigLink(l), warn |-> <<>>, err |-> ""]
  ELSE IF l.href = "html" THEN
    [ok |-> TRUE, to |-> this.docUrlBase \o OrigLink(l), warn |-> <<>>, err |-> ""]
  ELSE fieldRef(l, mapLinkName(this, l.href, l.target))

\* The replacement of one inline link by {@link ...}.
LinkText(l, to) ==
  IF to = l.label THEN "{@link " \o to \o "}"
  ELSE "{@link " \o to \o " " \o l.label \o "}"

\* The description after the link l was mapped to m.
LinkStep(acc, l, m) ==
  [acc EXCEPT !.ok = m.ok, !.err = m.err, !.warn = @ \o m.warn,
              !.links = IF m.ok THEN Append(@, LinkText(l, m.to)) ELSE @]

RECURSIVE ProcessLinks(_, _, _)
ProcessLinks(this, links, acc) ==
  IF links = <<>> \/ ~acc.ok THEN acc
  ELSE ProcessLinks(this, Tail(links), LinkStep(acc, Head(links), mapLink(this, Head(links))))

\* processDescription: defined = FALSE when it returns undefined.
processDescription(this, description) ==
  ProcessLinks(this, description.links,
    [ok |-> TRUE, defined |-> description.text, links |-> <<>>, warn |-> <<>>,
     err |-> ""])

\* The url of a page of the documentation.
Page(this, relative_link) == [url |-> this.docUrlBase \o relative_link, warn |-> <<>>]

\* The url of the container with "#" and the part of the reference after
\* the first separator appended.
suffixAnchor(r, reference) ==
  [url |-> r.url \o "#" \o Join(Tail(reference)), warn |-> r.warn]

\* The url of the class with "#" and the reference appended.
Anchor(r, reference) == [url |-> r.url \o "#" \o Join(reference), warn |-> r.warn]

RECURSIVE getDocumentationUrl(_, _)
getDocumentationUrl(this, reference) ==
  IF reference \in this.builtins THEN Page(this, "Builtin-Types.html#" \o Join(reference))
  ELSE IF reference \in this.classes THEN
    IF EndsWithControlBehavior(Join(reference))
      THEN Page(this, "LuaControlBehavior.html#" \o Join(reference))
      ELSE Page(this, Join(reference) \o ".html")
  ELSE IF reference \in this.events THEN Page(this, "events.html#" \o Join(reference))
  ELSE IF reference \in this.defines THEN Page(this, "defines.html#" \o Join(reference))
  ELSE IF reference \in this.concepts THEN Page(this, "Concepts.html#" \o Join(reference))
  ELSE IF reference \in this.globalObjects THEN Page(this, "")
  ELSE IF Len(reference) > 1
    THEN Anchor(getDocumentationUrl(this, <<reference[1]>>), reference)
  ELSE [url |-> this.docUrlBase, warn |-> <<"Could not get url: " \o Join(reference)>>]

\* ts.factory.createJSDocComment(comment, tags), printed.
JSDoc(text, links, url, tags) ==
  [Comment("jsdoc", text) EXCEPT !.links = links, !.url = url, !.tags = tags]

\* addFakeJSDoc(node, jsDoc): the comment is added to the node; a node of the
\* manual definitions is written to in the store.
addFakeJSDoc(node, jsDoc) ==
  IF node.kind = "ManualNode"
    THEN [Result(node, <<>>) EXCEPT !.marks = <<Mark(node.name, <<jsDoc>>)>>]
    ELSE Result([node EXCEPT !.comments = Append(@, jsDoc)], <<>>)

\* addJsDoc once the descriptions are processed (d, v) and the url of the
\* reference is known (u, evaluated only if the comment is made).
addComment(node, tags, d, v, u) ==
  IF ~d.ok THEN [Throw(d.err, <<>>) EXCEPT !.warn = d.warn]
  ELSE IF ~v.ok THEN [Throw(v.err, <<>>) EXCEPT !.warn = d.warn \o v.warn]
  ELSE IF ~(d.defined \/ v.defined) /\ tags = <<>> THEN
    [Result(node, <<>>) EXCEPT !.warn = d.warn \o v.warn]
  ELSE
    [addFakeJSDoc(node, JSDoc(IF d.defined \/ v.defined THEN "text" ELSE "",
                              d.links \o v.links, u.url, tags))
     EXCEPT !.warn = d.warn \o v.warn \o u.warn]

\* addJsDoc(node, element, reference, tags) for an element without notes,
\* subclasses, examples and see_also: description and vdesc are
\* element.description and element.variant_parameter_description.
addJsDoc(this, node, description, vdesc, reference, tags) ==
  IF ~this.docs THEN
    IF tags = <<>> THEN Result(node, <<>>)
    ELSE addFakeJSDoc(node, JSDoc("", <<>>, "", tags))
  ELSE addComment(node, tags, processDescription(this, description),
                  processDescription(this, vdesc),
                  IF reference # <<>> THEN getDocumentationUrl(this, reference)
                  ELSE [url |-> "", warn |-> <<>>])

\* ------------------------------------------------------------------ types
\* The distinct elements of s in order of first occurrence (new Set(...)).
AddDistinct(init, last) == IF last \in Range(init) THEN init ELSE Append(init, last)

RECURSIVE Distinct(_)
Distinct(s) ==
  IF s = <<>> THEN <<>>
  ELSE AddDistinct(Distinct(SubSeq(s, 1, Len(s) - 1)), s[Len(s)])

\* ts.factory.createUnionTypeNode(matches.map(Types.stringLiteral))
StringEnum(matches) ==
  [Node("UnionType", <<>>) EXCEPT
     !.args = [k \in 1..Len(matches) |-> TypesStringLiteral(matches[k])]]

\* tryMakeStringEnum: a sequence of length 0 (undefined) or 1.
tryMakeStringEnum(member) ==
  IF member.type = TName(<<"string">>) /\ Len(Distinct(member.description.quoted)) >= 2
    THEN <<StringEnum(Distinct(member.description.quoted))>>
    ELSE <<>>

escapePropertyName(name) ==
  IF IncludesHyphen(Join(name)) THEN <<"\"" \o Join(name) \o "\"">> ELSE name

escapeParameterName(name) ==
  IF Join(name) \in {"function", "interface"} THEN Prefixed("_", name) ELSE name

\* An isIndexableType that takes every name for indexable.
nameIndexable(this, type) == type.complex_type = ""

isIndexableType(this, type) ==
  /\ type.complex_type = ""
  /\ \/ type.name = <<"string">>
     \/ type.name = <<"number">>
     \/ StartsWithDefines(type.name)
     \/ type.name \in this.numericTypes

\* The node mapType makes of a complex type whose component types (options,
\* value, key and value, parameters) were mapped to `nodes`.
complexTypeNode(this, type, nodes) ==
  CASE type.complex_type = "variant" -> [Node("UnionType", <<>>) EXCEPT !.args = nodes]
    [] type.complex_type = "array" -> [Node("ArrayType", <<>>) EXCEPT !.args = nodes]
    [] type.complex_type = "dictionary" ->
         TypeRef(IF isIndexableType(this, type.args[1]) THEN <<"Record">>
                 ELSE <<"LuaTable">>, nodes)
    [] type.complex_type = "LuaCustomTable" -> TypeRef(<<"LuaCustomTable">>, nodes)
    [] type.complex_type = "function" ->
         [Node("FunctionType", <<>>) EXCEPT
            !.members = [k \in 1..Len(nodes) |->
                           [Node("Parameter", <<"param" \o ToString(k)>>) EXCEPT
                              !.args = <<nodes[k]>>]],
            !.args = <<TypesVoid>>]
    [] type.complex_type = "LuaLazyLoadedValue" -> TypeRef(<<"LuaLazyLoadedValue">>, nodes)

\* The warning mapType logs before it maps the key of a dictionary.
dictionaryWarning(this, type) ==
  IF type.complex_type = "dictionary" /\ ~isIndexableType(this, type.args[1])
    THEN <<"Not typescript indexable type for key in dictionary complex type: ">>
    ELSE <<>>

complexType(this, type, mapped) ==
  [Listed(mapped, complexTypeNode(this, type, mapped.nodes),
          [type EXCEPT !.args = mapped.ents])
   EXCEPT !.warn = dictionaryWarning(this, type) \o @]

TypeLiteral(members) == [Node("TypeLiteral", <<>>) EXCEPT !.members = members]

\* ts.factory.createPropertySignature([Modifiers.readonly], name, ?, type)
ReadonlyProperty(name, optional, type) ==
  [Node("PropertySignature", name) EXCEPT
     !.mods = <<"readonly">>, !.opt = optional, !.args = <<type>>]

\* A lookup that finds no member in any container.
noMember(existingContainer, name) == <<>>

\* existingContainer?.members[name]: a sequence of length 0 or 1.
existingMember(existingContainer, name) ==
  IF existingContainer = <<>> THEN <<>>
  ELSE Lookup(existingContainer[1].members, name)

\* existingProperty.emitNode = existingProperty.emitNode || {}
emitNode(path, ent) ==
  [Result(ManualNode(path), ent) EXCEPT !.marks = <<Mark(path, <<>>)>>]

RECURSIVE mapType(_, _)
RECURSIVE mapParameterToProperty(_, _, _, _)

mapType(this, type) ==
  IF type.complex_type = "" THEN Result(TypeRef(type.name, <<>>), type)
  ELSE IF type.complex_type \in {"variant", "array", "dictionary", "LuaCustomTable",
                                 "function", "LuaLazyLoadedValue"} THEN
    complexType(this, type, MapAll(LAMBDA t: mapType(this, t), type.args))
  ELSE IF type.complex_type = "table" THEN
    IF type.groups THEN Throw("Variant parameter complex type not yet supported", type)
    ELSE Made(SortMap(LAMBDA m: mapParameterToProperty(this, m, "<<table type>>", <<>>),
                      type.parameters),
              LAMBDA ns: TypeLiteral(ns),
              LAMBDA es: [type EXCEPT !.parameters = es])
  ELSE Throw("Value should be never", type)

\* tryMakeStringEnum(member) ?? this.mapType(member.type)
memberType(this, member) ==
  IF tryMakeStringEnum(member) # <<>>
    THEN Result(tryMakeStringEnum(member)[1], member.type)
    ELSE mapType(this, member.type)

\* mapParameterToProperty when the container has no member of that name and
\* the type was mapped (t).
newProperty(this, parameter, t) ==
  WithEnt(Then(t, addJsDoc(this,
                           ReadonlyProperty(escapePropertyName(parameter.name),
                                            parameter.optional, t.node),
                           parameter.description, NoDesc, <<>>, <<>>)),
          [parameter EXCEPT !.type = t.ent])

\* mapParameterToProperty when the container has a member of that name, of
\* kind `kind` and at `path` in the store.
existingProperty(this, parameter, fromClass, path, kind) ==
  IF kind # "PropertySignature" THEN
    Throw("Manual define for " \o fromClass \o "." \o Join(parameter.name)
          \o " should be a property signature, got " \o kind \o " instead", parameter)
  ELSE WithEnt(After(emitNode(path, parameter),
                     addJsDoc(this, ManualNode(path), parameter.description, NoDesc,
                              <<>>, <<>>)),
               parameter)

mapParameterToProperty(this, parameter, fromClass, existingContainer) ==
  IF existingMember(existingContainer, parameter.name) # <<>>
    THEN existingProperty(this, parameter, fromClass,
                          existingContainer[1].name \o parameter.name,
                          existingMember(existingContainer, parameter.name)[1].kind)
    ELSE newProperty(this, parameter, memberType(this, parameter))

\* ts.factory.createParameterDeclaration(.., name, ?, type)
ParameterDeclaration(name, optional, type) ==
  [Node("Parameter", name) EXCEPT !.opt = optional, !.args = <<type>>]

\* mapParameterToParameter once the type was mapped (t).
parameterOf(parameter, t) ==
  [t EXCEPT !.node = ParameterDeclaration(escapeParameterName(parameter.name),
                                          parameter.optional, t.node),
            !.ent = [parameter EXCEPT !.type = t.ent]]

mapParameterToParameter(this, parameter) ==
  parameterOf(parameter, mapType(this, parameter.type))

\* ------------------------------------------------------------------ members
Attribute(name, order, type, read, write) ==
  [name |-> name, order |-> order, type |-> type, read |-> read, write |-> write,
   description |-> Text]

\* A variant parameter group.
Group(name, order, parameters) ==
  [name |-> name, order |-> order, parameters |-> parameters, description |-> Text]

\* A method (also a call operator).  variant_parameter_groups is defined iff
\* hasGroups; discriminator is the field that variant_parameter_description
\* names in "depending on `<field>`:" ("" when it names none); variadic_type,
\* variadic_description and return_type are sequences of length 0
\* (undefined) or 1.
Method(name, order, parameters) ==
  [name |-> name, order |-> order, description |-> Text, parameters |-> parameters,
   takes_table |-> FALSE, table_is_optional |-> FALSE, hasGroups |-> FALSE,
   variant_parameter_groups |-> <<>>, variant_parameter_description |-> NoDesc,
   discriminator |-> "", variadic_type |-> <<>>, variadic_description |-> <<>>,
   return_type |-> <<>>, return_description |-> NoDesc]

\* The member mapAttribute creates for an attribute of the mapped type.
attributeMember(attribute, type) ==
  IF ~attribute.read
    THEN [Node("SetAccessor", attribute.name) EXCEPT
            !.members = <<ParameterDeclaration(<<"value">>, FALSE, type)>>]
    ELSE [Node("PropertySignature", attribute.name) EXCEPT
            !.mods = IF attribute.write THEN <<>> ELSE <<"readonly">>,
            !.args = <<type>>]

\* mapAttribute when the container has no member of that name and the type
\* was mapped (t).
newAttribute(this, attribute, fromClass, t) ==
  WithEnt(Then(t, addJsDoc(this, attributeMember(attribute, t.node),
                           attribute.description, NoDesc,
                           fromClass \o attribute.name, <<>>)),
          [attribute EXCEPT !.type = t.ent])

\* mapAttribute when the container has a member of that name, of kind `kind`
\* and at `path` in the store.
existingAttribute(this, attribute, fromClass, path, kind) ==
  IF kind # "PropertySignature" THEN
    Throw("Manual define for " \o Join(fromClass) \o "." \o Join(attribute.name)
          \o " should be a property signature, got " \o kind \o " instead", attribute)
  ELSE WithEnt(After(emitNode(path, attribute),
                     addJsDoc(this, ManualNode(path), attribute.description, NoDesc,
                              fromClass \o attribute.name, <<>>)),
               attribute)

mapAttribute(this, attribute, fromClass, existingContainer) ==
  IF existingMember(existingContainer, attribute.name) # <<>>
    THEN existingAttribute(this, attribute, fromClass,
                           existingContainer[1].name \o attribute.name,
                           existingMember(existingContainer, attribute.name)[1].kind)
    ELSE newAttribute(this, attribute, fromClass, memberType(this, attribute))

\* ts.factory.createInterfaceDeclaration(.., name, .., heritage, members)
Interface(name, supers, members) ==
  [Node("InterfaceDeclaration", name) EXCEPT !.supers = supers, !.members = members]

\* ts.factory.createTypeAliasDeclaration(.., name, typeParameters, type)
TypeAlias(name, typeParameters, type) ==
  [Node("TypeAliasDeclaration", name) EXCEPT !.mods = typeParameters, !.args = <<type>>]

Union(types) == [Node("UnionType", <<>>) EXCEPT !.args = types]

\* createVariantParameterTypes: the name of the interface of a group.
groupName(name, group) ==
  toPascalCase(IF StartsWithDefines(group.name) THEN group.name[Len(group.name)]
               ELSE Join(group.name)) \o name

\* A discriminator narrowed to the string literal of the name of the group,
\* also when the group is named by a define.
literalDiscriminator(discriminatorField, group) ==
  IF discriminatorField = "" THEN <<>>
  ELSE <<ReadonlyProperty(<<discriminatorField>>, FALSE,
                          TypesStringLiteral(Join(group.name)))>>

\* createVariantParameterTypes: the property that narrows the discriminator.
discriminatorMember(discriminatorField, group) ==
  IF discriminatorField = "" THEN <<>>
  ELSE <<ReadonlyProperty(<<discriminatorField>>, FALSE,
                          IF StartsWithDefines(group.name) THEN TypeRef(group.name, <<>>)
                          ELSE TypesStringLiteral(Join(group.name)))>>

\* createVariantParameterTypes: the body of the loop over the groups.
variantGroup(this, name, discriminatorField, group) ==
  PushedAs(
    Made(SortMap(LAMBDA p: mapParameterToProperty(this, p, groupName(name, group), <<>>),
                 group.parameters),
         LAMBDA ns: Interface(<<groupName(name, group)>>,
                              <<Node("ExpressionWithTypeArguments", <<"Base" \o name>>)>>,
                              discriminatorMember(discriminatorField, group) \o ns),
         LAMBDA es: [group EXCEPT !.parameters = es]),
    TypeRef(<<groupName(name, group)>>, <<>>))

\* createVariantParameterTypes: the base interface is pushed.
variantBase(this, name, variants) ==
  Pushed(Made(SortMap(LAMBDA p: mapParameterToProperty(this, p, "Base" \o name, <<>>),
                      variants.parameters),
              LAMBDA ns: Interface(<<"Base" \o name>>, <<>>, ns),
              LAMBDA es: [variants EXCEPT !.parameters = es]))

\* createVariantParameterTypes: the declaration (the node of r) is pushed,
\* then documented (doc); the function returns a reference to it.
variantDeclaration(name, r, doc) ==
  [After(r, doc) EXCEPT
     !.push = r.push \o <<IF doc.ok THEN doc.node ELSE r.node>>,
     !.node = TypeRef(<<name>>, <<>>), !.ent = r.ent]

\* createVariantParameterTypes after the loop over the groups.
variantUnion(this, name, memberForDocs, r) ==
  IF ~r.ok THEN r
  ELSE variantDeclaration(name, r,
         IF memberForDocs = <<>> THEN Result(r.node, <<>>)
         ELSE addJsDoc(this, r.node, memberForDocs[1].description,
                       memberForDocs[1].variant_parameter_description,
                       memberForDocs[1].name, <<>>))

\* createVariantParameterTypes: the type alias of the union of the groups.
variantAlias(name, base, groups) ==
  After(base, Listed(groups, TypeAlias(<<name>>, <<>>, Union(groups.nodes)),
                     [base.ent EXCEPT !.variant_parameter_groups = groups.ents]))

\* createVariantParameterTypes after the base interface (base).
variantGroups(this, name, base) ==
  IF ~base.ok THEN base
  ELSE variantAlias(name, base,
         SortMap(LAMBDA g: variantGroup(this, name, base.ent.discriminator, g),
                 base.ent.variant_parameter_groups))

createVariantParameterTypes(this, name, variants, memberForDocs) ==
  variantUnion(this, name, memberForDocs,
               variantGroups(this, name, variantBase(this, name, variants)))

RECURSIVE JoinStrings(_)
JoinStrings(ss) == IF ss = <<>> THEN "" ELSE " " \o Head(ss) \o JoinStrings(Tail(ss))

\* The tags after the description of item was processed (d).
TagStep(acc, item, d) ==
  [acc EXCEPT !.ok = d.ok, !.err = d.err, !.warn = @ \o d.warn,
              !.tags = IF d.ok THEN Append(@, item.tag \o JoinStrings(d.links)) ELSE @]

\* The JSDoc tags of a method, each with its processed description.  ok, err
\* and warn are those of processDescription.
RECURSIVE MethodTags(_, _, _)
MethodTags(this, items, acc) ==
  IF items = <<>> \/ ~acc.ok THEN acc
  ELSE MethodTags(this, Tail(items),
                  TagStep(acc, Head(items), processDescription(this, Head(items).description)))

NoTags == [ok |-> TRUE, err |-> "", warn |-> <<>>, tags |-> <<>>]

\* mapMethod: the elements the tags are made of: a @param tag for every
\* parameter (in the order method.parameters has at that moment) and for
\* the variadic arguments, then a @returns tag.
tagItems(method) ==
  (IF method.takes_table THEN <<>>
   ELSE [k \in 1..Len(method.parameters) |->
           [tag |-> "@param " \o Join(escapeParameterName(method.parameters[k].name)),
            description |-> method.parameters[k].description]]
        \o (IF method.variadic_description = <<>> THEN <<>>
            ELSE <<[tag |-> "@param args", description |-> method.variadic_description[1]]>>))
  \o (IF method.return_description.text
        THEN <<[tag |-> "@returns", description |-> method.return_description]>>
        ELSE <<>>)

ParameterList(parameters) == [Node("ParameterList", <<>>) EXCEPT !.members = parameters]

\* mapMethod: the single parameter "params" of the mapped table type.
tableParameter(table) ==
  IF ~table.ok THEN table
  ELSE [table EXCEPT
          !.node = ParameterList(<<ParameterDeclaration(<<"params">>,
                                                        table.ent.table_is_optional,
                                                        table.node)>>)]

\* mapMethod: the parameters; the node of the result holds the list.
methodParameters(this, method, fromClass) ==
  IF method.takes_table THEN
    tableParameter(
      IF method.hasGroups
        THEN createVariantParameterTypes(
               this, Join(fromClass) \o toPascalCase(Join(method.name)), method, <<>>)
        ELSE Made(SortMap(LAMBDA m: mapParameterToProperty(
                                      this, m, Join(fromClass) \o "." \o Join(method.name),
                                      <<>>),
                          method.parameters),
                  LAMBDA ns: TypeLiteral(ns),
                  LAMBDA es: [method EXCEPT !.parameters = es]))
  ELSE Made(SortMap(LAMBDA m: mapParameterToParameter(this, m), method.parameters),
            LAMBDA ns: ParameterList(ns),
            LAMBDA es: [method EXCEPT !.parameters = es])

\* mapMethod: parameters.push(the "...args" parameter of the mapped type).
pushVariadic(params, variadic) ==
  IF ~variadic.ok THEN WithEnt(After(params, variadic), params.ent)
  ELSE [After(params, variadic) EXCEPT
          !.node = [params.node EXCEPT
                      !.members = Append(@, [ParameterDeclaration(<<"args">>, FALSE,
                                                                  variadic.node)
                                             EXCEPT !.mods = <<"...">>])],
          !.ent = [params.ent EXCEPT !.variadic_type = variadic.ent.args]]

variadicParameter(this, params) ==
  IF ~params.ok \/ params.ent.variadic_type = <<>> THEN params
  ELSE pushVariadic(params, mapType(this, TComplex("array", params.ent.variadic_type)))

\* mapMethod: createMethodSignature(.., method.name, .., parameters, returnType)
createMethodSignature(params, returnType) ==
  IF ~returnType.ok THEN WithEnt(After(params, returnType), params.ent)
  ELSE [After(params, returnType) EXCEPT
          !.node = [Node("MethodSignature", params.ent.name) EXCEPT
                      !.members = params.node.members, !.args = <<returnType.node>>],
          !.ent = [params.ent EXCEPT
                     !.return_type = IF @ = <<>> THEN @ ELSE <<returnType.ent>>]]

methodSignature(this, params) ==
  IF ~params.ok THEN params
  ELSE createMethodSignature(params,
         IF params.ent.return_type = <<>> THEN Result(TypesVoid, <<>>)
         ELSE mapType(this, params.ent.return_type[1]))

\* mapMethod: the documentation is added with the tags.
methodJsDoc(this, fromClass, member, tags) ==
  IF ~tags.ok THEN
    [Throw(tags.err, member.ent) EXCEPT
       !.push = member.push, !.marks = member.marks, !.warn = member.warn \o tags.warn]
  ELSE WithEnt(After([member EXCEPT !.warn = @ \o tags.warn],
                     addJsDoc(this, member.node, member.ent.description,
                              member.ent.variant_parameter_description,
                              fromClass \o member.ent.name, Append(tags.tags, "@noSelf"))),
               member.ent)

\* mapMethod after the member was found or created: its schema argument is
\* the method as it is at that moment.
methodTags(this, fromClass, member) ==
  IF ~member.ok THEN member
  ELSE methodJsDoc(this, fromClass, member,
                   IF this.docs THEN MethodTags(this, tagItems(member.ent), NoTags)
                   ELSE NoTags)

mapMethod(this, method, fromClass, existingContainer) ==
  IF existingMember(existingContainer, method.name) = <<>> THEN
    methodTags(this, fromClass,
               methodSignature(this,
                 variadicParameter(this, methodParameters(this, method, fromClass))))
  ELSE IF existingMember(existingContainer, method.name)[1].kind # "MethodSignature" THEN
    Throw("Manual define for " \o Join(fromClass) \o "." \o Join(method.name)
          \o " should be a method signature, got "
          \o existingMember(existingContainer, method.name)[1].kind
          \o " instead", method)
  ELSE methodTags(this, fromClass,
                  emitNode(existingContainer[1].name \o method.name, method))

\* ------------------------------------------------------------------ classes
\* A class.  base_classes is a sequence of length 0 (undefined) or 1 holding
\* the list of names.  operators: a call operator is a Method named "call";
\* a length or index operator is an Operator.
Class(name, order, methods, attributes, operators) ==
  [name |-> name, order |-> order, description |-> Text, methods |-> methods,
   attributes |-> attributes, operators |-> operators, base_classes |-> <<>>]

Operator(name, type) ==
  [name |-> name, order |-> 0, description |-> Text, type |-> type]

\* The state of one iteration of the loop of generateClasses: members = the
\* local list `members`; clazz = the class as it is; indexingType = the
\* local of that name, a sequence of length 0 (undefined) or 1; push, warn
\* and marks = the writes of the iteration so far; ok = FALSE once it threw.
ClassState(clazz) ==
  [ok |-> TRUE, err |-> "", push |-> <<>>, warn |-> <<>>, marks |-> <<>>,
   members |-> <<>>, clazz |-> clazz, indexingType |-> <<>>]

\* members.push(the node r returned), with the writes of the call.
AddMember(c, r) ==
  [c EXCEPT !.ok = r.ok, !.err = r.err, !.push = @ \o r.push, !.warn = @ \o r.warn,
            !.marks = @ \o r.marks,
            !.members = IF r.ok /\ r.node.kind # "none" THEN Append(@, r.node) ELSE @]

\* The element of `list` that has the name of `ent` is now `ent`.
Replaced(list, ent) ==
  [k \in 1..Len(list) |-> IF list[k].name = ent.name THEN ent ELSE list[k]]

\* clazz.operators.find((x) => x.name === name)
operatorNamed(clazz, name) == Find(LAMBDA x: x.name = <<name>>, clazz.operators)

\* generateClasses: the supertype that is Array or ReadonlyArray.
arrayExtends(existing) ==
  IF existing # <<>> /\ existing[1].kind = "interface"
    THEN Find(LAMBDA t: Len(t.name) = 1 /\ t.name[1] \in {"Array", "ReadonlyArray"},
              existing[1].supertypes)
    ELSE <<>>

\* An arrayType that takes every array supertype for a mutable one.
mutableArrayType(existing) ==
  IF arrayExtends(existing) = <<>> THEN <<>>
  ELSE <<[type |-> arrayExtends(existing)[1].args[1], readonly |-> FALSE]>>

\* generateClasses: arrayType, a sequence of length 0 (undefined) or 1.
arrayType(existing) ==
  IF arrayExtends(existing) = <<>> THEN <<>>
  ELSE <<[type |-> arrayExtends(existing)[1].args[1],
          readonly |-> arrayExtends(existing)[1].name = <<"ReadonlyArray">>]>>

\* generateClasses: the checks of the manual definition of the class.
classStart(clazz, existing) ==
  IF existing # <<>> /\ existing[1].kind \notin {"interface", "type"} THEN
    [ClassState(clazz) EXCEPT
       !.ok = FALSE, !.err = "Manual define for class should be interface or type alias"]
  ELSE IF arrayExtends(existing) # <<>> /\ arrayExtends(existing)[1].args = <<>> THEN
    [ClassState(clazz) EXCEPT
       !.ok = FALSE,
       !.err = "Manual define " \o Join(clazz.name)
               \o " extends an array type without type arguments"]
  ELSE ClassState(clazz)

\* generateClasses.addMethod
methodAdded(c, r) == [AddMember(c, r) EXCEPT !.clazz.methods = Replaced(@, r.ent)]

addMethod(this, existing, c, method) ==
  methodAdded(c, mapMethod(this, method, c.clazz.name, existing))

\* generateClasses: the loop over the sorted methods, from the k-th.
RECURSIVE methodsLoop(_, _, _, _)
methodsLoop(this, existing, c, k) ==
  IF ~c.ok \/ k > Len(c.clazz.methods) THEN c
  ELSE methodsLoop(this, existing,
                   IF c.clazz.methods[k].name = <<"help">> THEN c
                   ELSE addMethod(this, existing, c, c.clazz.methods[k]),
                   k + 1)

classMethods(this, existing, c) ==
  IF ~c.ok THEN c
  ELSE methodsLoop(this, existing, [c EXCEPT !.clazz.methods = ArraySort(@)], 1)

\* generateClasses: the call signature made of the call operator mapped as a
\* method; the parameter lists of the operator are those the call sorted.
callSignature(c, asMethod) ==
  [AddMember(c, [asMethod EXCEPT !.node = [@ EXCEPT !.kind = "CallSignature",
                                                    !.name = <<>>]])
   EXCEPT !.clazz.operators = Replaced(@, [asMethod.ent EXCEPT !.name = <<"call">>])]

classCall(this, c) ==
  IF ~c.ok \/ operatorNamed(c.clazz, "call") = <<>> THEN c
  ELSE callSignature(c, mapMethod(this,
                                  [operatorNamed(c.clazz, "call")[1] EXCEPT
                                     !.name = <<"operator%20()">>],
                                  c.clazz.name, <<>>))

\* generateClasses: the length property of the mapped type (t).
lengthProperty(this, existing, c, lengthOperator, t) ==
  [AddMember(c, Then(t, addJsDoc(this,
                                 ReadonlyProperty(<<"length">>, FALSE,
                                   IF arrayType(existing) # <<>> THEN t.node
                                   ELSE TypeRef(<<"LuaLengthMethod">>, <<t.node>>)),
                                 lengthOperator.description, NoDesc,
                                 c.clazz.name \o <<"operator%20#">>, <<>>)))
   EXCEPT !.clazz.operators = Replaced(@, [lengthOperator EXCEPT !.type = t.ent])]

classLength(this, existing, c) ==
  IF ~c.ok \/ operatorNamed(c.clazz, "length") = <<>> THEN c
  ELSE lengthProperty(this, existing, c, operatorNamed(c.clazz, "length")[1],
                      mapType(this, operatorNamed(c.clazz, "length")[1].type))

\* generateClasses.addProperty
propertyAdded(c, r) == [AddMember(c, r) EXCEPT !.clazz.attributes = Replaced(@, r.ent)]

addProperty(this, existing, c, attribute) ==
  propertyAdded(c, mapAttribute(this, attribute, c.clazz.name, existing))

\* generateClasses: the loop over the sorted attributes, from the k-th.
RECURSIVE attributesLoop(_, _, _, _)
attributesLoop(this, existing, c, k) ==
  IF ~c.ok \/ k > Len(c.clazz.attributes) THEN c
  ELSE attributesLoop(this, existing,
                      IF c.clazz.attributes[k].name \in {<<"valid">>, <<"object_name">>}
                        THEN c
                        ELSE addProperty(this, existing, c, c.clazz.attributes[k]),
                      k + 1)

classAttributes(this, existing, c) ==
  IF ~c.ok THEN c
  ELSE attributesLoop(this, existing, [c EXCEPT !.clazz.attributes = ArraySort(@)], 1)

\* ts.factory.createIndexSignature(.., modifiers, [index: number], type)
IndexSignature(modifiers, type) ==
  [Node("IndexSignature", <<"index">>) EXCEPT
     !.mods = modifiers, !.members = <<TypesNumber>>, !.args = <<type>>]

\* getIndexingType for a mapped type: the type alias of the documented index
\* operator (r) is returned.
indexAlias(c, existing, r) ==
  [AddMember(c, [r EXCEPT !.node = NoNode])
   EXCEPT !.indexingType =
            IF r.ok THEN <<TypeAlias(Suffixed(c.clazz.name, "Index"),
                                     existing[1].typeParameters, r.node)>>
            ELSE <<>>]

\* getIndexingType for a type literal: the interface of the documented copy
\* of its index signature (r) is returned.
indexInterface(c, r) ==
  [AddMember(c, [r EXCEPT !.node = NoNode])
   EXCEPT !.indexingType =
            IF r.ok THEN <<Interface(Suffixed(c.clazz.name, "Index"), <<>>, <<r.node>>)>>
            ELSE <<>>]

\* A missing index operator definition taken for an error.
indexOperatorRequired(c) ==
  [c EXCEPT !.ok = FALSE,
            !.err = "No index operator manual definition for class " \o Join(c.clazz.name)]

\* getIndexingType: the manual definition has no index operator; a warning
\* is logged and undefined is returned.
noIndexOperator(c) ==
  [c EXCEPT !.warn = Append(@, "No index operator manual definition for class "
                               \o Join(c.clazz.name))]

\* generateClasses.getIndexingType(operator).  The index operator of the
\* manual definition is the node MappedType, or the type literal whose first
\* member is copied.
getIndexingType(this, existing, c, operator) ==
  IF arrayType(existing) # <<>> THEN
    AddMember(c, addJsDoc(this,
                          IndexSignature(IF arrayType(existing)[1].readonly
                                           THEN <<"readonly">> ELSE <<>>,
                                         arrayType(existing)[1].type),
                          operator.description, NoDesc,
                          c.clazz.name \o <<"operator%20[]">>, <<>>))
  ELSE IF ~(existing # <<>> /\ existing[1].kind = "type"
            /\ existing[1].indexOperator # "") THEN
    noIndexOperator(c)
  ELSE IF existing[1].indexOperator = "MappedType" THEN
    indexAlias(c, existing,
               addJsDoc(this, Node("MappedType", c.clazz.name), operator.description,
                        NoDesc, c.clazz.name \o <<"operator%20[]">>, <<>>))
  ELSE IF existing[1].indexOperator = "TypeLiteral" THEN
    indexInterface(c,
                   addJsDoc(this,
                            IndexSignature(<<>>, TypeRef(c.clazz.name \o <<"[index]">>, <<>>)),
                            operator.description, NoDesc,
                            c.clazz.name \o <<"operator%20[]">>, <<>>))
  ELSE [c EXCEPT !.ok = FALSE, !.err = "Value should be never"]

classIndex(this, existing, c) ==
  IF ~c.ok \/ operatorNamed(c.clazz, "index") = <<>> THEN c
  ELSE getIndexingType(this, existing, c, operatorNamed(c.clazz, "index")[1])

\* generateClasses: standardMembers, each a sequence of length 0 or 1.
standardHelp(clazz) == Find(LAMBDA m: m.name = <<"help">>, clazz.methods)
standardValid(clazz) == Find(LAMBDA a: a.name = <<"valid">>, clazz.attributes)
standardObjectName(clazz) == Find(LAMBDA a: a.name = <<"object_name">>, clazz.attributes)

\* standardMembers.help && standardMembers.valid && standardMembers.object_name
isLuaObject(clazz) ==
  standardHelp(clazz) # <<>> /\ standardValid(clazz) # <<>>
  /\ standardObjectName(clazz) # <<>>

addValid(this, existing, c) ==
  IF ~c.ok \/ standardValid(c.clazz) = <<>> THEN c
  ELSE addProperty(this, existing, c, standardValid(c.clazz)[1])

addObjectName(this, existing, c) ==
  IF ~c.ok \/ standardObjectName(c.clazz) = <<>> THEN c
  ELSE addProperty(this, existing, c, standardObjectName(c.clazz)[1])

addHelp(this, existing, c) ==
  IF ~c.ok \/ standardHelp(c.clazz) = <<>> THEN c
  ELSE addMethod(this, existing, c, standardHelp(c.clazz)[1])

classStandardMembers(this, existing, c) ==
  IF ~c.ok \/ isLuaObject(c.clazz) THEN c
  ELSE addHelp(this, existing, addObjectName(this, existing, addValid(this, existing, c)))

\* generateClasses: superTypes when the declaration is created.
superTypes(clazz, existing) ==
  (IF isLuaObject(clazz) THEN <<TypeRef(<<"LuaObject">>, <<>>)>> ELSE <<>>)
  \o (IF clazz.base_classes = <<>> THEN <<>>
      ELSE [k \in 1..Len(clazz.base_classes[1]) |->
              Node("ExpressionWithTypeArguments", clazz.base_classes[1][k])])
  \o (IF existing = <<>> THEN <<>> ELSE existing[1].supertypes)

\* existing?.node.typeParameters
typeParametersOf(existing) == IF existing = <<>> THEN <<>> ELSE existing[1].typeParameters

baseDeclaration(c, existing) ==
  [Interface(IF c.indexingType # <<>> THEN Suffixed(c.clazz.name, "Members")
             ELSE c.clazz.name,
             superTypes(c.clazz, existing), c.members)
   EXCEPT !.mods = IF c.indexingType # <<>> THEN <<>> ELSE typeParametersOf(existing)]

actualDeclaration(c, existing) ==
  TypeAlias(c.clazz.name, typeParametersOf(existing),
            [Node("IntersectionType", <<>>) EXCEPT
               !.args = <<TypeRef(Suffixed(c.clazz.name, "Members"), <<>>),
                          [Node("ExpressionWithTypeArguments",
                                Suffixed(c.clazz.name, "Index"))
                           EXCEPT !.args = [k \in 1..Len(typeParametersOf(existing)) |->
                                             TypeRef(<<typeParametersOf(existing)[k]>>,
                                                     <<>>)]]>>])

\* The statements `before` are pushed; the declaration is documented (d) and
\* is pushed (if it was not pushed before, `otherwise` is empty).
classDeclared(c, before, d, otherwise) ==
  [c EXCEPT !.ok = d.ok, !.err = d.err, !.warn = @ \o d.warn, !.marks = @ \o d.marks,
            !.push = @ \o before \o (IF d.ok THEN <<d.node>> ELSE otherwise)]

classDeclarations(this, existing, c) ==
  IF ~c.ok THEN c
  ELSE IF c.indexingType = <<>> THEN
    classDeclared(c, <<>>,
                  addJsDoc(this, baseDeclaration(c, existing), c.clazz.description, NoDesc,
                           c.clazz.name, <<>>),
                  <<baseDeclaration(c, existing)>>)
  ELSE
    classDeclared(c, <<baseDeclaration(c, existing), c.indexingType[1]>>,
                  addJsDoc(this, actualDeclaration(c, existing), c.clazz.description,
                           NoDesc, c.clazz.name, <<>>),
                  <<>>)

\* The iteration as the result of a call: it returns nothing.
classResult(c) ==
  [ok |-> c.ok, node |-> NoNode, push |-> c.push, warn |-> c.warn, marks |-> c.marks,
   ent |-> c.clazz, err |-> c.err]

classBody(this, clazz, existing) ==
  classResult(
    classDeclarations(this, existing,
      classStandardMembers(this, existing,
        classIndex(this, existing,
          classAttributes(this, existing,
            classLength(this, existing,
              classCall(this,
                classMethods(this, existing, classStart(clazz, existing)))))))))

\* The body of the loop of generateClasses for one class.
generateClass(this, clazz) == classBody(this, clazz, Lookup(this.manualDefinitions, clazz.name))

\* ------------------------------------------------------------------ concepts
\* A concept.  An option is [name, order, description, type]; the fields a
\* category does not have are empty.
Concept(name, order, category) ==
  [name |-> name, order |-> order, description |-> Text, category |-> category,
   options |-> <<>>, attributes |-> <<>>, parameters |-> <<>>, hasGroups |-> FALSE,
   variant_parameter_groups |-> <<>>, variant_parameter_description |-> NoDesc,
   discriminator |-> ""]

Option(name, order, type) ==
  [name |-> name, order |-> order, description |-> Text, type |-> type]

\* generateConcepts, union: this.addJsDoc(<the mapped type t>, option, undefined)
documentedOption(this, option, t) ==
  WithEnt(Then(t, addJsDoc(this, t.node, option.description, NoDesc, <<>>, <<>>)),
          [option EXCEPT !.type = t.ent])

unionOption(this, option) == documentedOption(this, option, mapType(this, option.type))

\* generateConcepts, flag: the option as an optional boolean property.
flagOption(this, concept, flag) ==
  WithEnt(mapParameterToProperty(
            this, [flag EXCEPT !.type = TName(<<"boolean">>)] @@ [optional |-> TRUE],
            Join(concept.name), <<>>),
          flag)

\* generateConcepts, enum: the option as a documented string literal.
enumOption(this, option) ==
  WithEnt(addJsDoc(this, TypesStringLiteral(Join(option.name)), option.description,
                   NoDesc, <<>>, <<>>),
          option)

\* ts.factory.createNamedTupleMember(.., param.name, ?, <the mapped type t>)
namedTupleMember(param, t) ==
  [t EXCEPT !.node = [Node("NamedTupleMember", param.name) EXCEPT
                        !.opt = param.optional, !.args = <<t.node>>],
            !.ent = [param EXCEPT !.type = t.ent]]

tupleMember(this, param) == namedTupleMember(param, mapType(this, param.type))

\* generateConcepts, table_or_array: the alias of the union of the table and
\* of the tuple (array) of the same parameters.
tableOrTuple(concept, table, array) ==
  After(Listed(table, NoNode, <<>>),
        Listed(array,
               TypeAlias(concept.name, <<>>,
                         Union(<<TypeLiteral(table.nodes),
                                 [Node("TupleType", <<>>) EXCEPT
                                    !.mods = <<"readonly">>, !.members = array.nodes]>>)),
               [concept EXCEPT !.parameters = array.ents]))

tableOrArray(this, concept, table) ==
  IF ~table.ok THEN Listed(table, NoNode, [concept EXCEPT !.parameters = table.ents])
  ELSE tableOrTuple(concept, table, MapAll(LAMBDA param: tupleMember(this, param), table.ents))

\* generateConcepts: the declaration of a concept by its category.
conceptDeclaration(this, concept, existing) ==
  IF concept.category = "concept" THEN
    IF existing # <<>> THEN Result(ManualNode(concept.name), concept)
    ELSE [Result(TypeAlias(concept.name, <<>>, TypesUnknown), concept) EXCEPT
            !.warn = <<"No concept definition given for " \o Join(concept.name) \o ".">>]
  ELSE IF concept.category = "union" THEN
    Made(SortMap(LAMBDA option: unionOption(this, option), concept.options),
         LAMBDA ns: TypeAlias(concept.name, <<>>, Union(ns)),
         LAMBDA es: [concept EXCEPT !.options = es])
  ELSE IF concept.category = "struct" THEN
    Made(SortMap(LAMBDA attr: mapAttribute(this, attr, concept.name, existing),
                 concept.attributes),
         LAMBDA ns: Interface(concept.name, <<>>, ns),
         LAMBDA es: [concept EXCEPT !.attributes = es])
  ELSE IF concept.category = "flag" THEN
    Made(SortMap(LAMBDA flag: flagOption(this, concept, flag), concept.options),
         LAMBDA ns: Interface(concept.name, <<>>, ns),
         LAMBDA es: [concept EXCEPT !.options = es])
  ELSE IF concept.category \in {"table", "filter"} THEN
    Made(SortMap(LAMBDA m: mapParameterToProperty(this, m, Join(concept.name), existing),
                 concept.parameters),
         LAMBDA ns: Interface(concept.name, <<>>, ns),
         LAMBDA es: [concept EXCEPT !.parameters = es])
  ELSE IF concept.category = "enum" THEN
    Made(SortMap(LAMBDA option: enumOption(this, option), concept.options),
         LAMBDA ns: TypeAlias(concept.name, <<>>, Union(ns)),
         LAMBDA es: [concept EXCEPT !.options = es])
  ELSE IF concept.category = "table_or_array" THEN
    tableOrArray(this, concept,
                 SortMap(LAMBDA param: mapParameterToProperty(this, param,
                                                              Join(concept.name), <<>>),
                         concept.parameters))
  ELSE Throw("Value should be never", concept)

\* generateConcepts: the declaration is documented, then pushed.
conceptDeclared(this, declaration) ==
  IF ~declaration.ok THEN declaration
  ELSE Pushed(WithEnt(After(declaration,
                            addJsDoc(this, declaration.node, declaration.ent.description,
                                     declaration.ent.variant_parameter_description,
                                     declaration.ent.name, <<>>)),
                      declaration.ent))

conceptBody(this, concept, existing) ==
  IF existing # <<>> /\ existing[1].kind = "namespace" THEN
    Throw("Manual definition for concept " \o Join(concept.name)
          \o " cannot be a namespace", concept)
  ELSE IF concept.category \in {"table", "filter"} /\ concept.hasGroups THEN
    [createVariantParameterTypes(this, Join(concept.name), concept, <<concept>>)
     EXCEPT !.node = NoNode]
  ELSE conceptDeclared(this, conceptDeclaration(this, concept, existing))

\* The body of the loop of generateConcepts for one concept.
generateConcept(this, concept) ==
  conceptBody(this, concept, Lookup(this.manualDefinitions, concept.name))

\* ------------------------------------------------------------------ defines
\* A node of the defines tree: values is defined iff hasValues, subkeys iff
\* hasSubkeys.  A value is [name, order, description, value].
Define(name, order) ==
  [name |-> name, order |-> order, description |-> Text, hasValues |-> FALSE,
   values |-> <<>>, hasSubkeys |-> FALSE, subkeys |-> <<>>]

DefineValue(name, order, value) ==
  [name |-> name, order |-> order, description |-> Text, value |-> value]

Enum(name, order, values) ==
  [Define(name, order) EXCEPT !.hasValues = TRUE, !.values = values]

Namespace(name, order, subkeys) ==
  [Define(name, order) EXCEPT !.hasSubkeys = TRUE, !.subkeys = subkeys]

\* The elements of a list with their (zero-based) index: the arguments of
\* the callback of Array.prototype.map.
Indexed(s) == [k \in 1..Len(s) |-> [m |-> s[k], i |-> k - 1]]

Elements(es) == [k \in 1..Len(es) |-> es[k].m]

\* The value the schema carries for the enum member m.
schemaValue(m, i) == m.value

\* The numeric literal of the enum member m at (zero-based) position i of
\* the sorted values: ts.factory.createNumericLiteral(i).
EnumMemberValue(m, i) == i

\* generateDefinesDeclaration: the callback that maps a value to its member.
enumMember(this, thisPath, e) ==
  WithEnt(addJsDoc(this,
                   [Node("EnumMember", e.m.name) EXCEPT !.num = EnumMemberValue(e.m, e.i)],
                   e.m.description, NoDesc, thisPath \o e.m.name, <<>>),
          e)

\* generateDefinesDeclaration: this.addJsDoc(declaration, define, thisPath)
defineDocumented(this, thisPath, declaration) ==
  IF ~declaration.ok THEN declaration
  ELSE WithEnt(After(declaration,
                     addJsDoc(this, declaration.node, declaration.ent.description, NoDesc,
                              thisPath, <<>>)),
               declaration.ent)

\* generateDefinesDeclaration.  existing is a sequence of length 0
\* (undefined) or 1, existingPath the path of that definition in the store.
RECURSIVE generateDefinesDeclaration(_, _, _, _, _, _)
generateDefinesDeclaration(this, define, path, existing, existingPath, modifiers) ==
  IF define.hasValues THEN
    IF existing # <<>> /\ existing[1].kind # "enum" THEN
      Throw("Manual definition for " \o Join(path) \o " should be a namespace, got "
            \o existing[1].kind, define)
    ELSE defineDocumented(this, path \o define.name,
           Made(MapAll(LAMBDA e: enumMember(this, path \o define.name, e),
                       Indexed(ArraySort(define.values))),
                LAMBDA ns: [Node("EnumDeclaration", define.name) EXCEPT
                              !.mods = modifiers, !.members = ns],
                LAMBDA es: [define EXCEPT !.values = Elements(es)]))
  ELSE IF define.hasSubkeys THEN
    IF existing # <<>> /\ existing[1].kind # "namespace" THEN
      Throw("Manual definition for " \o Join(path) \o " should be a namespace, got "
            \o existing[1].kind, define)
    ELSE defineDocumented(this, path \o define.name,
           Made(SortMap(LAMBDA d: generateDefinesDeclaration(
                                    this, d, path \o define.name \o d.name,
                                    existingMember(existing, d.name),
                                    existingPath \o d.name, <<>>),
                        define.subkeys),
                LAMBDA ns: [Node("ModuleDeclaration", define.name) EXCEPT
                              !.mods = modifiers, !.members = ns],
                LAMBDA es: [define EXCEPT !.subkeys = es]))
  ELSE IF existing = <<>> THEN
    defineDocumented(this, path \o define.name,
      [Result(TypeAlias(define.name, <<>>, TypesUnknown), define) EXCEPT
         !.warn = <<"Incomplete define for " \o Join(path)>>])
  ELSE defineDocumented(this, path \o define.name, Result(ManualNode(existingPath), define))

\* this.rootDefine
rootDefine(schema) ==
  [Namespace(<<"defines">>, 0, schema.defines) EXCEPT !.description = NoDesc]

\* ------------------------------------------------------------------ the other stages
Builtin(name, order) == [name |-> name, order |-> order, description |-> Text]

Event(name, order, data) ==
  [name |-> name, order |-> order, description |-> Text, data |-> data]

GlobalObject(name, order, type) ==
  [name |-> name, order |-> order, description |-> Text, type |-> type]

\* The body of the loop of generateBuiltins for one builtin.
generateBuiltin(this, builtin) ==
  IF builtin.name \in {<<"boolean">>, <<"string">>} THEN Result(NoNode, builtin)
  ELSE Pushed(WithEnt(addJsDoc(this,
                               TypeAlias(builtin.name, <<>>,
                                         IF builtin.name = <<"table">> THEN TypesObject
                                         ELSE TypesNumber),
                               builtin.description, NoDesc, builtin.name, <<>>),
                      builtin))

\* generateBuiltins: the names added to this.numericTypes when the loop ran
\* over the first n builtins.
numericBuiltins(builtins, n) ==
  {builtins[k].name : k \in {j \in 1..n :
     builtins[j].name \notin {<<"boolean">>, <<"string">>, <<"table">>}}}

\* p.type += "." + event.name
AppendEventName(type, event) ==
  IF type.complex_type = "" THEN TName(type.name \o event.name)
  ELSE TName(<<"[object Object]">> \o event.name)

\* generateEvents: the callback that maps a field of the event data.
eventField(this, event, p) ==
  mapParameterToProperty(
    this,
    IF p.name = <<"name">> /\ event.name # <<"CustomInputEvent">>
      THEN [p EXCEPT !.type = AppendEventName(@, event)]
      ELSE p,
    Join(getMappedEventName(event)), <<>>)

\* generateEvents: this.addJsDoc(<the interface>, event, event.name)
eventDocumented(this, declaration) ==
  IF ~declaration.ok THEN declaration
  ELSE WithEnt(After(declaration,
                     addJsDoc(this, declaration.node, declaration.ent.description, NoDesc,
                              declaration.ent.name, <<>>)),
               declaration.ent)

\* The callback of generateEvents for one event.
generateEvent(this, event) ==
  eventDocumented(this,
    Made(SortMap(LAMBDA p: eventField(this, event, p), event.data),
         LAMBDA ns: Interface(getMappedEventName(event), <<>>, ns),
         LAMBDA es: [event EXCEPT !.data = es]))

\* generateGlobalObjects: the statement of the mapped type (t) is documented,
\* then pushed.
globalDefinition(this, globalObject, t) ==
  WithEnt(Pushed(Then(t, addJsDoc(this,
                                  [Node("VariableStatement", globalObject.name) EXCEPT
                                     !.mods = <<"declare", "const">>, !.args = <<t.node>>],
                                  globalObject.description, NoDesc, globalObject.name,
                                  <<>>))),
          [globalObject EXCEPT !.type = t.ent])

\* The body of the loop of generateGlobalObjects for one global object.
generateGlobalObject(this, globalObject) ==
  globalDefinition(this, globalObject, mapType(this, globalObject.type))

\* generateAdditionalTypes.restoreDocs: the JSDoc text of the source is put
\* back on the node and on each of its descendants that has one.
RECURSIVE restoreDocs(_, _)
restoreDocs(def, path) ==
  (IF def.jsDoc THEN <<Mark(path, <<Comment("jsdoc", "restored")>>)>> ELSE <<>>)
  \o Concat([k \in 1..Len(def.members) |->
               restoreDocs(def.members[k], path \o def.members[k].name)])

\* A final pass that emits every manual definition, matched or not.
emitEvery(this, def) ==
  [Result(NoNode, def) EXCEPT
     !.marks = IF this.docs THEN restoreDocs(def, def.name) ELSE <<>>,
     !.push = <<ManualNode(def.name)>>]

\* The body of the loop of generateAdditionalTypes for one key.
generateAdditionalType(this, def) ==
  IF def.name \in DOMAIN this.typeNames THEN Result(NoNode, def)
  ELSE [Result(NoNode, def) EXCEPT
          !.marks = IF this.docs THEN restoreDocs(def, def.name) ELSE <<>>,
          !.push = <<ManualNode(def.name)>>]

\* preprocessAll.addDefine: the names it registers in this.typeNames
\* (defines is the subset it adds to this.defines).
RECURSIVE addDefine(_, _)
addDefine(define, prefix) ==
  [typeNames |->
     {prefix \o define.name}
     \cup (IF define.hasValues
             THEN {prefix \o define.name \o define.values[k].name :
                     k \in 1..Len(define.values)}
             ELSE {})
     \cup (IF define.hasSubkeys
             THEN UNION {addDefine(define.subkeys[k], prefix \o define.name).typeNames :
                           k \in 1..Len(define.subkeys)}
             ELSE {}),
   defines |->
     {prefix \o define.name}
     \cup (IF define.hasSubkeys
             THEN UNION {addDefine(define.subkeys[k], prefix \o define.name).defines :
                           k \in 1..Len(define.subkeys)}
             ELSE {})]

\* ------------------------------------------------------------------ state
VARIABLES
  apiDocs,                  \* the schema object handed to the constructor
  manualDefinitionsSource,  \* the manual definitions handed to the constructor
  docs,                     \* the docs flag handed to the constructor
  loaded,                   \* the schema as it was loaded (never written)
  manualDefinitions,        \* this.manualDefinitions
  statements,               \* this.statements
  numericTypes,             \* this.numericTypes
  typeNames,                \* this.typeNames: a function name -> mapped name
  defines,                  \* this.defines
  pc,                       \* the position of the program
  i,                        \* the index of the running loop (classes, concepts)
  log,                      \* the warnings written to the console
  error,                    \* the message of the error thrown ("" if none)
  returned,                 \* the results of the calls of generateDeclarations
  run,                      \* the number of the current run, from 1
  head,                     \* the branch the repository is checked out on
  tree,                     \* the working tree: "clean", "changed" or "staged"
  commits,                  \* the commits made, oldest first: [branch, message]
  line,                     \* the position of the new-version-diff script
  currentBranch,            \* its constant currentBranch
  newFactorioVersion,       \* its constant newFactorioVersion
  executed,                 \* the commands it handed to execSync, oldest first
  startBranch               \* what the repository was on when the script began (never written)

\* The state of the new-version-diff script and of the repository it runs in.
scriptVars == <<head, tree, commits, line, currentBranch, newFactorioVersion, executed,
                startBranch>>

\* The state of the generator.
generatorVars == <<apiDocs, manualDefinitionsSource, docs, loaded, manualDefinitions,
                   statements, numericTypes, typeNames, defines, pc, i, log, error,
                   returned, run>>

vars == <<apiDocs, manualDefinitionsSource, docs, loaded, manualDefinitions, statements,
          numericTypes, typeNames, defines, pc, i, log, error, returned, run,
          head, tree, commits, line, currentBranch, newFactorioVersion, executed,
          startBranch>>

Names(list) == {list[k].name : k \in 1..Len(list)}

\* The fields of the generator that the mapping functions read.
This ==
  [docs |-> docs,
   docUrlBase |-> "https://lua-api.factorio.com/" \o apiDocs.application_version \o "/",
   typeNames |-> typeNames,
   builtins |-> Names(apiDocs.builtin_types),
   defines |-> defines,
   events |-> Names(apiDocs.events),
   classes |-> Names(apiDocs.classes),
   concepts |-> Names(apiDocs.concepts),
   globalObjects |-> Names(apiDocs.global_objects),
   numericTypes |-> numericTypes,
   manualDefinitions |-> manualDefinitions]

\* manualDefinitions.processManualDefinitions: the definitions of the source
\* file by name, none of them written to yet.
processManualDefinitions(source) == source

\* A statement as the printer sees it: a reference to a manual node is the
\* node of the store, with the comments it has when the file is printed.
RECURSIVE DefNode(_)
DefNode(def) ==
  [Node("Manual " \o def.kind, def.name) EXCEPT
     !.mods = def.typeParameters, !.supers = def.supertypes, !.comments = def.comments,
     !.members = [k \in 1..Len(def.members) |-> DefNode(def.members[k])]]

RECURSIVE DefAt(_, _)
DefAt(defs, path) ==
  IF Len(path) = 1 THEN Lookup(defs, path)[1]
  ELSE DefAt(Lookup(defs, <<Head(path)>>)[1].members, Tail(path))

RECURSIVE Resolve(_, _)
Resolve(defs, node) ==
  IF node.kind = "ManualNode" THEN DefNode(DefAt(defs, node.name))
  ELSE [node EXCEPT
          !.args = [k \in 1..Len(node.args) |-> Resolve(defs, node.args[k])],
          !.members = [k \in 1..Len(node.members) |-> Resolve(defs, node.members[k])]]

\* printer.printFile(sourceFile)
printFile(defs, stmts) == [k \in 1..Len(stmts) |-> Resolve(defs, stmts[k])]

\* The names preprocessAll registers: this.typeNames afterwards.
registered(schema, names, added) ==
  [n \in DOMAIN names \cup Names(schema.builtin_types) \cup Names(schema.classes)
         \cup Names(schema.concepts) \cup Names(schema.global_objects)
         \cup Names(schema.events) \cup added.typeNames |->
     IF n \in added.typeNames THEN n
     ELSE IF n \in Names(schema.events)
       THEN getMappedEventName(CHOOSE e \in Range(schema.events) : e.name = n)
     ELSE IF n \in Names(schema.builtin_types) \cup Names(schema.classes)
               \cup Names(schema.concepts) \cup Names(schema.global_objects) THEN n
     ELSE names[n]]

\* An error that is recorded while the run goes on to print the list.
Resume(msg) == pc' = "print" /\ error' = msg

\* An error thrown inside generateDeclarations leaves it: nothing is returned.
Abort(msg) == pc' = "aborted" /\ error' = msg

\* A stage whose statements are put in front of the list (unshift).
RanFirst(before, r, next) ==
  /\ statements' = before \o r.push \o statements
  /\ log' = log \o r.warn
  /\ manualDefinitions' = ApplyMarks(manualDefinitions, r.marks)
  /\ IF r.ok THEN pc' = next /\ UNCHANGED error ELSE Abort(r.err)

\* What a stage that ran to r leaves behind: the statements it pushed after
\* the ones `before` it, its warnings, its writes to the manual definitions;
\* the program goes on at `next` unless it threw.
Ran(before, r, next) ==
  /\ statements' = statements \o before \o r.push
  /\ log' = log \o r.warn
  /\ manualDefinitions' = ApplyMarks(manualDefinitions, r.marks)
  /\ IF r.ok THEN pc' = next /\ UNCHANGED error ELSE Abort(r.err)

\* A constructor that processes the manual definitions before its checks.
ConstructLate ==
  /\ pc = "new"
  /\ manualDefinitions' = processManualDefinitions(manualDefinitionsSource)
  /\ IF apiDocs.application # "factorio" THEN
       /\ pc' = "failed"
       /\ error' = "Unsupported application type " \o apiDocs.application
     ELSE IF apiDocs.api_version # 1 THEN
       /\ pc' = "failed"
       /\ error' = "Unsupported api version " \o ToString(apiDocs.api_version)
     ELSE
       /\ pc' = "constructed"
       /\ UNCHANGED error
  /\ UNCHANGED <<apiDocs, manualDefinitionsSource, docs, loaded, statements, numericTypes,
                 typeNames, defines, i, log, returned, run>>
  /\ UNCHANGED scriptVars

\* ------------------------------------------------------------------ actions
\* new DefinitionsGenerator(apiDocs, manualDefinitionsSource, docs)
Construct ==
  /\ pc = "new"
  /\ IF apiDocs.application # "factorio" THEN
       /\ pc' = "failed"
       /\ error' = "Unsupported application type " \o apiDocs.application
       /\ UNCHANGED manualDefinitions
     ELSE IF apiDocs.api_version # 1 THEN
       /\ pc' = "failed"
       /\ error' = "Unsupported api version " \o ToString(apiDocs.api_version)
       /\ UNCHANGED manualDefinitions
     ELSE
       /\ pc' = "constructed"
       /\ manualDefinitions' = processManualDefinitions(manualDefinitionsSource)
       /\ UNCHANGED error
  /\ UNCHANGED <<apiDocs, manualDefinitionsSource, docs, loaded, statements, numericTypes,
                 typeNames, defines, i, log, returned, run>>
  /\ UNCHANGED scriptVars

\* generateDeclarations: addHeaders, then generateAll up to preprocessAll.
preprocessAll(added) ==
  /\ typeNames' = registered(apiDocs, typeNames, added)
  /\ defines' = defines \cup added.defines

Begin ==
  /\ pc = "constructed"
  /\ statements' = Append(statements, createComment("/ <reference types=\"lua-types/5.2\" />"))
  /\ preprocessAll(addDefine(rootDefine(apiDocs), <<>>))
  /\ pc' = "builtins"
  /\ UNCHANGED <<apiDocs, manualDefinitionsSource, docs, loaded, manualDefinitions,
                 numericTypes, i, log, error, returned, run>>
  /\ UNCHANGED scriptVars

builtinsRan(r) ==
  /\ Ran(<<createComment(" Builtins")>>, r, "defines")
  /\ apiDocs' = [apiDocs EXCEPT !.builtin_types = r.ents]
  /\ numericTypes' = numericTypes
       \cup numericBuiltins(r.ents, IF r.ok THEN Len(r.ents)
                                    ELSE CHOOSE n \in 1..Len(r.ents) :
                                           Len(Filter(LAMBDA b: b.name \notin
                                                        {<<"boolean">>, <<"string">>},
                                                      SubSeq(r.ents, 1, n)))
                                           = Len(r.nodes) + 1)

generateBuiltins ==
  /\ pc = "builtins"
  /\ builtinsRan(SortMap(LAMBDA b: generateBuiltin(This, b), apiDocs.builtin_types))
  /\ UNCHANGED <<manualDefinitionsSource, docs, loaded, typeNames, defines, i, returned, run>>
  /\ UNCHANGED scriptVars

definesRan(r) ==
  /\ Ran(<<createComment(" Defines")>>, Pushed(r), "events")
  /\ apiDocs' = [apiDocs EXCEPT !.defines = r.ent.subkeys]

generateDefines ==
  /\ pc = "defines"
  /\ definesRan(generateDefinesDeclaration(This, rootDefine(apiDocs), <<>>,
                                           Lookup(manualDefinitions, <<"defines">>),
                                           <<"defines">>, <<"declare">>))
  /\ UNCHANGED <<manualDefinitionsSource, docs, loaded, numericTypes, typeNames, defines, i,
                 returned, run>>
  /\ UNCHANGED scriptVars

eventsRan(r) ==
  /\ Ran(<<createComment(" Events")>>,
         [r EXCEPT !.push = @ \o (IF r.ok THEN r.nodes ELSE <<>>)], "classes")
  /\ apiDocs' = [apiDocs EXCEPT !.events = r.ents]

generateEvents ==
  /\ pc = "events"
  /\ eventsRan(SortMap(LAMBDA e: generateEvent(This, e), apiDocs.events))
  /\ UNCHANGED <<manualDefinitionsSource, docs, loaded, numericTypes, typeNames, defines, i,
                 returned, run>>
  /\ UNCHANGED scriptVars

\* generateClasses up to the first iteration: the list is sorted in place.
beginClasses ==
  /\ pc = "classes"
  /\ statements' = Append(statements, createComment(" Classes"))
  /\ apiDocs' = [apiDocs EXCEPT !.classes = ArraySort(@)]
  /\ i' = 1
  /\ pc' = "class"
  /\ UNCHANGED <<manualDefinitionsSource, docs, loaded, manualDefinitions, numericTypes,
                 typeNames, defines, log, error, returned, run>>
  /\ UNCHANGED scriptVars

classRan(r) ==
  /\ Ran(<<>>, r, pc)
  /\ apiDocs' = [apiDocs EXCEPT !.classes[i] = r.ent]
  /\ i' = IF r.ok THEN i + 1 ELSE i

\* One iteration of the loop of generateClasses.
generateClasses ==
  /\ pc = "class"
  /\ i <= Len(apiDocs.classes)
  /\ classRan(generateClass(This, apiDocs.classes[i]))
  /\ UNCHANGED <<manualDefinitionsSource, docs, loaded, numericTypes, typeNames, defines,
                 returned, run>>
  /\ UNCHANGED scriptVars

\* The loop of generateClasses ends; generateConcepts up to its first
\* iteration.
beginConcepts ==
  /\ pc = "class"
  /\ i > Len(apiDocs.classes)
  /\ statements' = Append(statements, createComment(" Concepts"))
  /\ apiDocs' = [apiDocs EXCEPT !.concepts = ArraySort(@)]
  /\ i' = 1
  /\ pc' = "concept"
  /\ UNCHANGED <<manualDefinitionsSource, docs, loaded, manualDefinitions, numericTypes,
                 typeNames, defines, log, error, returned, run>>
  /\ UNCHANGED scriptVars

conceptRan(r) ==
  /\ Ran(<<>>, r, pc)
  /\ apiDocs' = [apiDocs EXCEPT !.concepts[i] = r.ent]
  /\ i' = IF r.ok THEN i + 1 ELSE i

\* One iteration of the loop of generateConcepts.
generateConcepts ==
  /\ pc = "concept"
  /\ i <= Len(apiDocs.concepts)
  /\ conceptRan(generateConcept(This, apiDocs.concepts[i]))
  /\ UNCHANGED <<manualDefinitionsSource, docs, loaded, numericTypes, typeNames, defines,
                 returned, run>>
  /\ UNCHANGED scriptVars

globalObjectsRan(r) ==
  /\ Ran(<<createComment(" Global objects")>>, r, "additional")
  /\ apiDocs' = [apiDocs EXCEPT !.global_objects = r.ents]

\* The loop of generateConcepts ends; generateGlobalObjects.
generateGlobalObjects ==
  /\ pc = "concept"
  /\ i > Len(apiDocs.concepts)
  /\ globalObjectsRan(SortMap(LAMBDA g: generateGlobalObject(This, g),
                              apiDocs.global_objects))
  /\ UNCHANGED <<manualDefinitionsSource, docs, loaded, numericTypes, typeNames, defines, i,
                 returned, run>>
  /\ UNCHANGED scriptVars

generateAdditionalTypes ==
  /\ pc = "additional"
  /\ Ran(<<createComment(" Manually defined additional types")>>,
         MapAll(LAMBDA d: generateAdditionalType(This, d), manualDefinitions), "print")
  /\ UNCHANGED <<apiDocs, manualDefinitionsSource, docs, loaded, numericTypes, typeNames,
                 defines, i, returned, run>>
  /\ UNCHANGED scriptVars

\* generateDeclarations returns the printed source file.
print ==
  /\ pc = "print"
  /\ returned' = Append(returned, printFile(manualDefinitions, statements))
  /\ pc' = "done"
  /\ UNCHANGED <<apiDocs, manualDefinitionsSource, docs, loaded, manualDefinitions,
                 statements, numericTypes, typeNames, defines, i, log, error, run>>
  /\ UNCHANGED scriptVars

\* A second call of generateDeclarations on the same generator.
callAgain ==
  /\ pc = "done"
  /\ run < MaxRuns
  /\ run' = run + 1
  /\ pc' = "constructed"
  /\ UNCHANGED <<apiDocs, manualDefinitionsSource, docs, loaded, manualDefinitions,
                 statements, numericTypes, typeNames, defines, i, log, error, returned>>
  /\ UNCHANGED scriptVars

\* A second generator over the same schema object and the same manual
\* definitions: its fields are initialized anew.
newGenerator ==
  /\ pc = "done"
  /\ run < MaxRuns
  /\ run' = run + 1
  /\ pc' = "new"
  /\ statements' = <<>>
  /\ numericTypes' = {}
  /\ typeNames' = << >>
  /\ defines' = {}
  /\ manualDefinitions' = <<>>
  /\ UNCHANGED <<apiDocs, manualDefinitionsSource, docs, loaded, i, log, error, returned>>
  /\ UNCHANGED scriptVars

\* ------------------------------------------------------------------ inputs
Orders == 0..MaxOrder

\* The order fields of the modelled schemas are drawn per slot: an entity
\* of slot s has order ord[s].
Slots == {"a", "b", "c"}

N(s) == <<s>>

Param(name, order, type) == Parameter(N(name), order, TName(N(type)), FALSE, Text)
Optional(p) == [p EXCEPT !.optional = TRUE]

\* A description with one inline link to target::operator <operator>.
OperatorLink(target, operator) ==
  Desc(<<Link("see", "ref", N(target), "operator " \o operator, operator)>>, <<>>)

BuiltinPool(ord) ==
  <<Builtin(N("uint"), ord["a"]), Builtin(N("string"), ord["b"]),
    Builtin(N("table"), ord["c"]), Builtin(N("double"), ord["a"])>>

\* defines.events (three values), defines.control_behavior (a namespace of
\* two enumerations) and defines.flow (neither values nor subkeys).
DefinesPool(ord) ==
  <<Enum(N("events"), ord["a"],
         <<DefineValue(N("on_tick"), ord["a"], 2), DefineValue(N("on_built"), ord["b"], 0),
           DefineValue(N("on_died"), ord["c"], 1)>>),
    Namespace(N("control_behavior"), ord["b"],
              <<Enum(N("type"), ord["b"],
                     <<DefineValue(N("lamp"), ord["c"], 7),
                       DefineValue(N("inserter"), ord["a"], 7)>>),
                Enum(N("wire"), ord["a"], <<DefineValue(N("red"), ord["b"], 1)>>)>>),
    Define(N("flow"), ord["c"])>>

EventPool(ord) ==
  <<Event(N("on_tick"), ord["a"],
          <<Param("tick", ord["b"], "uint"),
            Parameter(N("name"), ord["a"], TName(<<"defines", "events">>), FALSE, Text)>>),
    Event(N("on_built"), ord["b"],
          <<Parameter(N("name"), ord["c"], TName(<<"defines", "events">>), FALSE, Text),
            Param("created_entity", ord["a"], "LuaA"),
            Optional(Param("item", ord["c"], "string"))>>),
    Event(N("CustomInputEvent"), ord["c"],
          <<Param("name", ord["a"], "uint"), Param("input_name", ord["a"], "string")>>)>>

\* LuaA.create{...}: a table of parameters with variant groups.
CreateMethod(ord) ==
  [Method(N("create"), ord["b"],
          <<Param("name", ord["b"], "string"), Param("force", ord["a"], "string")>>)
   EXCEPT !.takes_table = TRUE, !.hasGroups = TRUE,
          !.variant_parameter_groups =
             <<Group(N("item"), ord["c"], <<Param("count", ord["a"], "uint")>>),
               Group(N("fluid"), ord["a"],
                     <<Param("amount", ord["b"], "double"),
                       Optional(Param("temperature", ord["a"], "double"))>>),
               Group(<<"defines", "control_behavior", "type", "lamp">>, ord["c"], <<>>)>>,
          !.variant_parameter_description = Text, !.discriminator = "type"]

SetFilterMethod(ord) ==
  [Method(N("set_filter"), ord["a"],
          <<Param("index", ord["b"], "uint"), Optional(Param("function", ord["a"], "string"))>>)
   EXCEPT !.variadic_type = <<TName(N("string"))>>, !.variadic_description = <<Text>>,
          !.return_type = <<TName(N("boolean"))>>, !.return_description = Text]

\* LuaA carries help, valid and object_name; LuaB carries valid alone and
\* has the three operators; LuaLampControlBehavior extends LuaA and carries
\* help and object_name.
ClassPool(ord) ==
  <<Class(N("LuaA"), ord["b"],
          <<Method(N("help"), ord["a"], <<>>), CreateMethod(ord)>>,
          <<Attribute(N("valid"), ord["a"], TName(N("boolean")), TRUE, FALSE),
            Attribute(N("speed"), ord["c"], TName(N("double")), FALSE, TRUE),
            Attribute(N("object_name"), ord["b"], TName(N("string")), TRUE, FALSE),
            Attribute(N("name"), ord["a"], TName(N("string")), TRUE, FALSE)>>,
          <<>>),
    Class(N("LuaB"), ord["a"],
          <<SetFilterMethod(ord),
            Method(N("clear"), ord["c"], <<>>)>>,
          <<Attribute(N("valid"), ord["a"], TName(N("boolean")), TRUE, FALSE),
            Attribute(N("count"), ord["b"], TName(N("uint")), TRUE, TRUE),
            Attribute(N("owner"), ord["a"], TName(N("LuaA")), TRUE, FALSE)>>,
          <<[Method(N("call"), 0, <<Param("arg", ord["a"], "uint")>>) EXCEPT
               !.return_type = <<TName(N("LuaA"))>>],
            Operator(N("length"), TName(N("uint"))),
            Operator(N("index"), TName(N("LuaA")))>>),
    [Class(N("LuaLampControlBehavior"), ord["c"],
           <<Method(N("help"), ord["a"], <<>>), Method(N("reset"), ord["b"], <<>>)>>,
           <<Attribute(N("object_name"), ord["a"], TName(N("string")), TRUE, FALSE),
             [Attribute(N("mode"), ord["a"], TName(N("string")), TRUE, TRUE) EXCEPT
                !.description = Desc(<<>>, <<"on", "off", "on">>)]>>,
           <<>>)
     EXCEPT !.base_classes = <<<<N("LuaA")>>>>]>>

ConceptPool(ord) ==
  <<[Concept(N("Position"), ord["a"], "table_or_array") EXCEPT
       !.parameters = <<Optional(Param("y", ord["b"], "number")),
                        Param("x", ord["a"], "number")>>],
    [Concept(N("Flags"), ord["b"], "flag") EXCEPT
       !.options = <<Option(N("by-player"), ord["c"], TName(<<>>)),
                     Option(N("hidden"), ord["a"], TName(<<>>))>>],
    [Concept(N("Color"), ord["c"], "struct") EXCEPT
       !.attributes = <<Attribute(N("r"), ord["b"], TName(N("double")), TRUE, TRUE),
                        Attribute(N("g"), ord["a"], TName(N("double")), TRUE, FALSE)>>],
    [Concept(N("Filter"), ord["a"], "filter") EXCEPT
       !.parameters = <<Param("mode", ord["c"], "string"),
                        Optional(Param("invert", ord["b"], "boolean"))>>,
       !.hasGroups = TRUE,
       !.variant_parameter_groups =
          <<Group(N("item"), ord["b"], <<Param("name", ord["a"], "string")>>),
            Group(N("fluid"), ord["a"], <<Param("amount", ord["a"], "double")>>)>>,
       !.variant_parameter_description = Text, !.discriminator = "filter"],
    [Concept(N("Signal"), ord["b"], "table") EXCEPT
       !.parameters =
          <<Param("signal", ord["c"], "string"),
            Parameter(N("counts"), ord["a"],
                      TComplex("dictionary", <<TName(N("uint")), TName(N("LuaA"))>>),
                      FALSE, Text),
            Parameter(N("owners"), ord["b"],
                      TComplex("dictionary", <<TName(N("LuaA")), TName(N("uint"))>>),
                      TRUE, Text)>>],
    [Concept(N("Direction"), ord["c"], "enum") EXCEPT
       !.options = <<Option(N("north"), ord["b"], TName(<<>>)),
                     Option(N("south"), ord["a"], TName(<<>>))>>],
    [Concept(N("Handler"), ord["a"], "union") EXCEPT
       !.options =
          <<Option(N("function"), ord["b"],
                   TComplex("function", <<TName(N("on_tick")), TName(N("uint"))>>)),
            Option(N("list"), ord["a"],
                   TComplex("array", <<TComplex("variant",
                                                <<TName(N("string")), TName(N("LuaB"))>>)>>)),
            Option(N("lazy"), ord["c"],
                   TComplex("LuaLazyLoadedValue", <<TName(N("LuaA"))>>)),
            Option(N("custom"), ord["a"],
                   TComplex("LuaCustomTable", <<TName(N("string")), TName(N("LuaA"))>>)),
            Option(N("inline"), ord["b"],
                   TTable(<<Param("b", ord["b"], "uint"), Param("a", ord["a"], "uint")>>,
                          FALSE))>>],
    Concept(N("LocalisedString"), ord["b"], "concept")>>

GlobalPool(ord) ==
  <<GlobalObject(N("game"), ord["c"], TName(N("LuaA"))),
    GlobalObject(N("script"), ord["a"], TName(N("LuaB")))>>

Schema(ord) ==
  [application |-> "factorio", api_version |-> 1, application_version |-> "1.1.0",
   builtin_types |-> BuiltinPool(ord), defines |-> DefinesPool(ord),
   events |-> EventPool(ord), classes |-> ClassPool(ord), concepts |-> ConceptPool(ord),
   global_objects |-> GlobalPool(ord)]

\* Schemas the generator rejects or cannot synthesize, and one it
\* synthesizes with a warning (DanglingLink).
Zero == [s \in Slots |-> 0]

\* A schema with a link to a class it does not have.
DanglingLink ==
  [Schema(Zero) EXCEPT !.events[2].description = OperatorLink("LuaB", "#"),
                       !.classes[1].description = OperatorLink("LuaC", "[]")]

BrokenSchemas ==
  LET base == Schema(Zero)
  IN {[base EXCEPT !.application = "other"],
      [base EXCEPT !.api_version = 2],
      [base EXCEPT !.concepts[3].category = "builtin"],
      [base EXCEPT !.global_objects[2].type = TComplex("tuple", <<TName(N("uint"))>>)],
      [base EXCEPT !.classes[2].attributes[2].type =
                      TTable(<<Param("a", 0, "uint")>>, TRUE)],
      [base EXCEPT !.events[2].description = OperatorLink("LuaB", "+")],
      DanglingLink}

\* Schemas the generator accepts that carry a shape the pools do not: an
\* attribute that is neither readable nor writable; the attribute valid of a
\* type other than boolean in a class that carries help, valid and
\* object_name; a string parameter of a table_or_array concept whose
\* description quotes two tokens; dictionaries keyed by string, number, a
\* define, boolean, an array, a class, a numeric builtin and table.
OddSchemas ==
  LET base == Schema(Zero)
  IN {[base EXCEPT !.classes[2].attributes[2].read = FALSE,
                   !.classes[2].attributes[2].write = FALSE],
      [base EXCEPT !.classes[1].attributes[1].type = TName(N("uint"))],
      [base EXCEPT !.concepts[1].parameters[2] =
                      Parameter(N("x"), 0, TName(N("string")), FALSE,
                                Desc(<<>>, <<"left", "right">>))],
      [base EXCEPT !.concepts[5].parameters =
                      <<Parameter(N("byName"), 0,
                                  TComplex("dictionary", <<TName(N("string")), TName(N("uint"))>>),
                                  FALSE, Text),
                        Parameter(N("byNumber"), 0,
                                  TComplex("dictionary", <<TName(N("number")), TName(N("uint"))>>),
                                  FALSE, Text),
                        Parameter(N("byEvent"), 0,
                                  TComplex("dictionary",
                                           <<TName(<<"defines", "events">>), TName(N("uint"))>>),
                                  FALSE, Text),
                        Parameter(N("byFlag"), 0,
                                  TComplex("dictionary", <<TName(N("boolean")), TName(N("uint"))>>),
                                  FALSE, Text),
                        Parameter(N("byList"), 0,
                                  TComplex("dictionary",
                                           <<TComplex("array", <<TName(N("uint"))>>),
                                             TName(N("uint"))>>),
                                  FALSE, Text),
                        Parameter(N("byOwner"), 0,
                                  TComplex("dictionary", <<TName(N("LuaA")), TName(N("uint"))>>),
                                  FALSE, Text),
                        Parameter(N("byCount"), 0,
                                  TComplex("dictionary", <<TName(N("uint")), TName(N("uint"))>>),
                                  FALSE, Text),
                        Parameter(N("byTable"), 0,
                                  TComplex("dictionary", <<TName(N("table")), TName(N("uint"))>>),
                                  FALSE, Text)>>]}

\* Manual definitions.
Member(name, kind) == Def(N(name), kind, <<>>)

Extends(def, name, typeArguments) ==
  [def EXCEPT !.supertypes =
     Append(@, [Node("ExpressionWithTypeArguments", N(name)) EXCEPT !.args = typeArguments])]

WithIndex(def, kind) == [def EXCEPT !.indexOperator = kind, !.typeParameters = <<"K">>]

\* Stores the generator accepts.
Stores ==
  {<<>>,
   <<Def(N("LuaA"), "interface",
         <<Member("name", "PropertySignature"), Member("create", "MethodSignature"),
           Member("extra", "PropertySignature")>>),
     Def(N("Color"), "interface", <<Member("r", "PropertySignature")>>),
     [Def(N("Extra"), "interface", <<[Member("field", "PropertySignature") EXCEPT
                                       !.jsDoc = TRUE]>>)
      EXCEPT !.jsDoc = TRUE],
     Def(N("LocalisedString"), "type", <<>>),
     Def(N("defines"), "namespace",
         <<Def(N("events"), "enum", <<>>),
           Def(N("control_behavior"), "namespace", <<Def(N("type"), "enum", <<>>)>>),
           Def(N("flow"), "type", <<>>)>>)>>,
   <<Extends(Def(N("LuaB"), "interface", <<Member("count", "PropertySignature")>>),
             "ReadonlyArray", <<TypeRef(N("LuaA"), <<>>)>>)>>,
   <<Extends(Def(N("LuaB"), "interface", <<>>), "Array", <<TypeRef(N("LuaA"), <<>>)>>),
     Def(N("Signal"), "interface", <<Member("signal", "PropertySignature")>>)>>,
   <<WithIndex(Def(N("LuaB"), "type", <<>>), "MappedType"),
     Def(N("Position"), "type", <<>>)>>,
   <<WithIndex(Def(N("LuaB"), "type", <<Member("clear", "MethodSignature")>>),
               "TypeLiteral")>>,
   <<Def(N("LuaA"), "interface", <<Member("valid", "MethodSignature"),
                                    Member("help", "PropertySignature")>>)>>}

\* Stores with a definition that does not fit the schema.
BrokenStores ==
  {<<Def(N("LuaB"), "interface", <<Member("count", "MethodSignature")>>)>>,
   <<Def(N("LuaB"), "interface", <<Member("set_filter", "PropertySignature")>>)>>,
   <<Def(N("LuaB"), "interface", <<Member("valid", "MethodSignature")>>)>>,
   <<Def(N("LuaA"), "namespace", <<>>)>>,
   <<WithIndex(Def(N("LuaB"), "type", <<>>), "UnionType")>>,
   <<Extends(Def(N("LuaB"), "interface", <<>>), "Array", <<>>)>>,
   <<Def(N("Color"), "namespace", <<>>)>>,
   <<Def(N("Color"), "interface", <<Member("g", "MethodSignature")>>)>>,
   <<Def(N("Signal"), "interface", <<Member("counts", "MethodSignature")>>)>>,
   <<Def(N("defines"), "namespace", <<Def(N("control_behavior"), "enum", <<>>)>>)>>,
   <<Def(N("defines"), "namespace",
         <<Def(N("control_behavior"), "namespace", <<Def(N("type"), "interface", <<>>)>>)>>)>>,
   <<Def(N("defines"), "enum", <<>>)>>}

\* The new-version-diff script before its first statement, in a repository
\* that is on h with the working tree t.
scriptNew(h, t) ==
  /\ head = h
  /\ startBranch = h
  /\ tree = t
  /\ commits = <<>>
  /\ line = "9"
  /\ currentBranch = ""
  /\ newFactorioVersion = ""
  /\ executed = <<>>

Init ==
  /\ \/ /\ \E ord \in [Slots -> Orders] : apiDocs = Schema(ord)
        /\ manualDefinitionsSource \in Stores
     \/ /\ apiDocs = Schema(Zero)
        /\ manualDefinitionsSource \in BrokenStores
     \/ /\ apiDocs \in BrokenSchemas
        /\ manualDefinitionsSource \in {s \in Stores : Len(s) # 1}
     \/ /\ apiDocs \in OddSchemas
        /\ manualDefinitionsSource = <<>>
  /\ docs \in BOOLEAN
  /\ loaded = apiDocs
  /\ manualDefinitions = <<>>
  /\ statements = <<>>
  /\ numericTypes = {}
  /\ typeNames = << >>
  /\ defines = {}
  /\ pc = "new"
  /\ i = 0
  /\ log = <<>>
  /\ error = ""
  /\ returned = <<>>
  /\ run = 1
  /\ scriptNew("main", "clean")

Next ==
  \/ Construct
  \/ Begin
  \/ generateBuiltins
  \/ generateDefines
  \/ generateEvents
  \/ beginClasses
  \/ generateClasses
  \/ beginConcepts
  \/ generateConcepts
  \/ generateGlobalObjects
  \/ generateAdditionalTypes
  \/ print

\* One generator, one call of generateDeclarations.
Spec == Init /\ [][Next]_vars

\* Generation run again over the same objects.
NextTwice == Next \/ callAgain \/ newGenerator

SpecTwice == Init /\ [][NextTwice]_vars

\* ------------------------------------------------------------------ new-version-diff
\* The repository is on a branch or on no branch (a detached HEAD).
Detached == "(no branch)"

Heads == {"main", "next", "new-version-diff", Detached}

\* What getCurrentFactorioVersion can return.
Versions == {"1.1.0", "1.1.1"}

\* run(cmd) (runCmd here, `run` being the run counter): execSync hands cmd
\* to the shell and throws when its exit status is not 0; the error is
\* caught nowhere and ends the script.  Any command can exit with another
\* status; git refuses to force a branch that is checked out, and to commit
\* when nothing is staged.  `effect` is what the command does when it exits
\* with 0, `next` the statement after it.
runCmd(cmd, text, effect, next) ==
  LET exits == IF cmd = "git branch -f" /\ head = "new-version-diff" THEN {FALSE}
               ELSE IF cmd = "git commit" /\ tree # "staged" THEN {FALSE}
               ELSE BOOLEAN
  IN /\ executed' = Append(executed, text)
     /\ \E ok \in exits :
          IF ok THEN effect /\ line' = next
          ELSE /\ line' = "thrown"
               /\ UNCHANGED <<head, commits, currentBranch, newFactorioVersion>>
               /\ tree' \in (IF cmd = "npm" THEN {tree, "changed"} ELSE {tree})
     /\ UNCHANGED startBranch
     /\ UNCHANGED generatorVars

\* const currentBranch = run("git rev-parse --abbrev-ref HEAD").toString().trim()
\* With stdio: "inherit" the output of the command goes to the terminal and
\* the runtime decides what execSync hands back: the output, or null, and
\* null.toString() throws.
getCurrentBranch ==
  /\ line = "9"
  /\ \E stdout \in {"buffer", "null"} :
       runCmd("git rev-parse", "git rev-parse --abbrev-ref HEAD",
              /\ currentBranch' = (IF stdout = "null" THEN currentBranch
                                   ELSE IF head = Detached THEN "HEAD" ELSE head)
              /\ UNCHANGED <<head, tree, commits, newFactorioVersion>>,
              IF stdout = "null" THEN "thrown" ELSE "11")

\* run(`git branch -f new-version-diff`)
forceBranch ==
  /\ line = "11"
  /\ runCmd("git branch -f", "git branch -f new-version-diff",
         UNCHANGED <<head, tree, commits, currentBranch, newFactorioVersion>>, "12")

\* run(`git checkout new-version-diff`)
checkoutDiff ==
  /\ line = "12"
  /\ runCmd("git checkout", "git checkout new-version-diff",
         /\ head' = "new-version-diff"
         /\ UNCHANGED <<tree, commits, currentBranch, newFactorioVersion>>,
         "14")

\* run("npm run generate -- --no-link"), lines 14 and 22; run("npm run
\* download-latest-json-apis"), line 21.  The files they write differ from
\* the ones of the last commit or do not.
npmRun ==
  /\ line \in {"14", "21", "22"}
  /\ runCmd("npm",
         IF line = "21" THEN "npm run download-latest-json-apis"
         ELSE "npm run generate -- --no-link",
         /\ tree' \in (IF tree = "staged" THEN {"staged"} ELSE {tree, "changed"})
         /\ UNCHANGED <<head, commits, currentBranch, newFactorioVersion>>,
         CASE line = "14" -> "19:16" [] line = "21" -> "22" [] line = "22" -> "23")

\* commit(message), called from lines 19 and 24: run(`git add .`), then
\* run(`git commit -m "${message}"`).
commit ==
  LET message == IF line = "19:17" THEN "Run generator without link"
                 ELSE "Diff for factorio version " \o newFactorioVersion
  IN \/ /\ line \in {"19:16", "24:16"}
        /\ runCmd("git add", "git add .",
                  /\ tree' = (IF tree = "clean" THEN "clean" ELSE "staged")
                  /\ UNCHANGED <<head, commits, currentBranch, newFactorioVersion>>,
                  IF line = "19:16" THEN "19:17" ELSE "24:17")
     \/ /\ line \in {"19:17", "24:17"}
        /\ runCmd("git commit", "git commit -m \"" \o message \o "\"",
                  /\ commits' = Append(commits, [branch |-> head, message |-> message])
                  /\ tree' = "clean"
                  /\ UNCHANGED <<head, currentBranch, newFactorioVersion>>,
                  IF line = "19:17" THEN "21" ELSE "27")

\* const newFactorioVersion = getCurrentFactorioVersion()
getVersion ==
  /\ line = "23"
  /\ newFactorioVersion' \in Versions
  /\ line' = "24:16"
  /\ UNCHANGED <<head, tree, commits, currentBranch, executed, startBranch>>
  /\ UNCHANGED generatorVars

\* run(`git checkout ${currentBranch}`): `git checkout HEAD` leaves the
\* repository where it is.
checkoutBack ==
  /\ line = "27"
  /\ runCmd("git checkout", "git checkout " \o currentBranch,
         /\ head' = (IF currentBranch = "HEAD" THEN head ELSE currentBranch)
         /\ UNCHANGED <<tree, commits, currentBranch, newFactorioVersion>>,
         "exit")

\* The script started in any repository; the generator of this process is
\* not used.
InitScript ==
  /\ apiDocs = Schema(Zero)
  /\ manualDefinitionsSource = <<>>
  /\ docs = FALSE
  /\ loaded = apiDocs
  /\ manualDefinitions = <<>>
  /\ statements = <<>>
  /\ numericTypes = {}
  /\ typeNames = << >>
  /\ defines = {}
  /\ pc = "new"
  /\ i = 0
  /\ log = <<>>
  /\ error = ""
  /\ returned = <<>>
  /\ run = 1
  /\ \E h \in Heads : \E t \in {"clean", "changed"} : scriptNew(h, t)

NextScript ==
  \/ getCurrentBranch
  \/ forceBranch
  \/ checkoutDiff
  \/ npmRun
  \/ commit
  \/ getVersion
  \/ checkoutBack

SpecScript == InitScript /\ [][NextScript]_vars

\* ------------------------------------------------------------------ properties
\* The file the first call of generateDeclarations returned.
Out == IF returned = <<>> THEN <<>> ELSE returned[1]

\* The nodes of L that carry `name`.
Named(L, name) == Filter(LAMBDA n: n.name = name, L)

\* Is(e, n): the node n stands for the schema entity e.
ByName(e, n) == n.name = e.name

Has(L, e, Is(_, _)) == \E k \in 1..Len(L) : Is(e, L[k])

Pos(L, e, Is(_, _)) ==
  CHOOSE k \in 1..Len(L) : Is(e, L[k]) /\ \A j \in 1..(k - 1) : ~Is(e, L[j])

\* The entities of the schema list S that L holds stand in L in ascending
\* order of their order fields, those of equal order in the order of S.
InOrder(S, L, Is(_, _)) ==
  \A p, q \in 1..Len(S) :
    (p < q /\ Has(L, S[p], Is) /\ Has(L, S[q], Is)) =>
      IF S[p].order <= S[q].order THEN Pos(L, S[p], Is) < Pos(L, S[q], Is)
      ELSE Pos(L, S[q], Is) < Pos(L, S[p], Is)

\* The names of the declarations of a shape with variant groups.
VariantNames(name, v) ==
  IF v.hasGroups
    THEN {<<name>>, <<"Base" \o name>>}
         \cup {<<groupName(name, v.variant_parameter_groups[k])>> :
                 k \in 1..Len(v.variant_parameter_groups)}
    ELSE {}

MethodTypeName(c, m) == Join(c.name) \o toPascalCase(Join(m.name))

EventNames == {getMappedEventName(e) : e \in Range(loaded.events)}

ClassNames ==
  UNION {{c.name, Suffixed(c.name, "Members"), Suffixed(c.name, "Index")}
         \cup UNION {VariantNames(MethodTypeName(c, m), m) : m \in Range(c.methods)} :
           c \in Range(loaded.classes)}

ConceptNames ==
  UNION {{c.name} \cup VariantNames(Join(c.name), c) : c \in Range(loaded.concepts)}

\* The category of a statement: 1 builtins, 2 defines, 3 events, 4 classes,
\* 5 concepts, 6 global objects, 7 additional manual definitions; a section
\* comment belongs to the category it opens, the header to none (0).
SectionRank(text) ==
  CASE text = " Builtins" -> 1
    [] text = " Defines" -> 2
    [] text = " Events" -> 3
    [] text = " Classes" -> 4
    [] text = " Concepts" -> 5
    [] text = " Global objects" -> 6
    [] text = " Manually defined additional types" -> 7
    [] OTHER -> 0

DeclarationRank(name) ==
  IF name \in Names(loaded.builtin_types) THEN 1
  ELSE IF name = <<"defines">> THEN 2
  ELSE IF name \in EventNames THEN 3
  ELSE IF name \in ClassNames THEN 4
  ELSE IF name \in ConceptNames THEN 5
  ELSE IF name \in Names(loaded.global_objects) THEN 6
  ELSE 7

Rank(n) ==
  IF n.kind = "EmptyStatement" THEN SectionRank(n.comments[1].text)
  ELSE DeclarationRank(n.name)

\* No statement is of an earlier category than the one before it.
Ranked(L) == \A k \in 1..(Len(L) - 1) : Rank(L[k]) <= Rank(L[k + 1])

\* C1: in the output list of generateDeclarations the declarations of the
\* builtins precede those of the defines, then come those of the events, of
\* the classes, of the concepts, of the global objects, and the manual
\* definitions that matched nothing come last: no declaration of a later
\* category stands before one of an earlier category.
C1_CategoryOrder == Ranked(printFile(manualDefinitions, statements))

\* A returned file that holds a declaration of every category.
C1_Witness ==
  /\ pc = "done"
  /\ \A r \in 1..7 : \E k \in 1..Len(Out) : Out[k].kind # "EmptyStatement" /\ Rank(Out[k]) = r

\* -- order within the categories
RECURSIVE DefinesInOrder(_, _)
DefinesInOrder(defs, nodes) ==
  /\ InOrder(defs, nodes, ByName)
  /\ \A k \in 1..Len(defs) : \A n \in Range(Named(nodes, defs[k].name)) :
       IF defs[k].hasValues THEN InOrder(defs[k].values, n.members, ByName)
       ELSE IF defs[k].hasSubkeys THEN DefinesInOrder(defs[k].subkeys, n.members)
       ELSE TRUE

EventsInOrder ==
  /\ InOrder(loaded.events, Out, LAMBDA e, n: n.name = getMappedEventName(e))
  /\ \A e \in Range(loaded.events) : \A n \in Range(Named(Out, getMappedEventName(e))) :
       InOrder(e.data, n.members, ByName)

\* The declarations that hold the members of class c.
ClassBodies(c) ==
  Filter(LAMBDA n: n.kind = "InterfaceDeclaration"
                   /\ n.name \in {c.name, Suffixed(c.name, "Members")}, Out)

IsParameter(p, n) == n.name = escapeParameterName(p.name)

\* P selects the members of a class the order is stated of.
ClassesInOrder(P(_)) ==
  /\ InOrder(loaded.classes, Out, ByName)
  /\ \A c \in Range(loaded.classes) : \A n \in Range(ClassBodies(c)) :
       /\ InOrder(Filter(P, c.methods), n.members, ByName)
       /\ InOrder(Filter(P, c.attributes), n.members, ByName)
       /\ \A m \in Range(c.methods) : \A s \in Range(Named(n.members, m.name)) :
            (s.kind = "MethodSignature" /\ ~m.takes_table)
              => InOrder(m.parameters, s.members, IsParameter)

\* The node a type of the schema is mapped to, by its kind.
IsOption(o, n) ==
  CASE o.type.complex_type = "function" -> n.kind = "FunctionType"
    [] o.type.complex_type = "array" -> n.kind = "ArrayType"
    [] o.type.complex_type = "table" -> n.kind = "TypeLiteral"
    [] OTHER -> n.kind = "TypeReference" /\ n.name = <<o.type.complex_type>>

IsProperty(e, n) == n.name = escapePropertyName(e.name)

ConceptInOrder(c, n) ==
  CASE c.category = "union" -> InOrder(c.options, n.args[1].args, IsOption)
    [] c.category = "struct" -> InOrder(c.attributes, n.members, ByName)
    [] c.category = "flag" -> InOrder(c.options, n.members, IsProperty)
    [] c.category \in {"table", "filter"} /\ ~c.hasGroups ->
         InOrder(c.parameters, n.members, IsProperty)
    [] c.category = "enum" -> InOrder(c.options, n.args[1].args, ByName)
    [] c.category = "table_or_array" ->
         /\ InOrder(c.parameters, n.args[1].args[1].members, IsProperty)
         /\ InOrder(c.parameters, n.args[1].args[2].members, ByName)
    [] OTHER -> TRUE

ConceptsInOrder ==
  /\ InOrder(loaded.concepts, Out, ByName)
  /\ \A c \in Range(loaded.concepts) : \A n \in Range(Named(Out, c.name)) :
       n.kind \in {"InterfaceDeclaration", "TypeAliasDeclaration"} => ConceptInOrder(c, n)

\* The declarations of the shape v with variant groups, named `name`.
VariantInOrder(name, v) ==
  /\ InOrder(v.variant_parameter_groups, Out, LAMBDA g, n: n.name = <<groupName(name, g)>>)
  /\ \A n \in Range(Named(Out, <<name>>)) :
       n.kind = "TypeAliasDeclaration"
         => InOrder(v.variant_parameter_groups, n.args[1].args,
                    LAMBDA g, t: t.name = <<groupName(name, g)>>)
  /\ \A n \in Range(Named(Out, <<"Base" \o name>>)) :
       InOrder(v.parameters, n.members, IsProperty)
  /\ \A g \in Range(v.variant_parameter_groups) :
       \A n \in Range(Named(Out, <<groupName(name, g)>>)) :
         InOrder(g.parameters, n.members, IsProperty)

VariantsInOrder ==
  /\ \A c \in Range(loaded.concepts) : c.hasGroups => VariantInOrder(Join(c.name), c)
  /\ \A c \in Range(loaded.classes) : \A m \in Range(c.methods) :
       m.hasGroups => VariantInOrder(MethodTypeName(c, m), m)

OrderRespected(P(_)) ==
  /\ InOrder(loaded.builtin_types, Out, ByName)
  /\ DefinesInOrder(<<rootDefine(loaded)>>, Out)
  /\ EventsInOrder
  /\ ClassesInOrder(P)
  /\ ConceptsInOrder
  /\ VariantsInOrder
  /\ InOrder(loaded.global_objects, Out, ByName)

StandardNames == <<<<"valid">>, <<"object_name">>, <<"help">>>>

IsStandard(m) == m.name \in Range(StandardNames)

StandardIndex(name) == CHOOSE k \in 1..Len(StandardNames) : StandardNames[k] = name

\* After the first of valid, object_name and help in a class only these
\* follow, in this order.
StandardMembersLast ==
  \A c \in Range(loaded.classes) : \A n \in Range(ClassBodies(c)) :
    \A j, k \in 1..Len(n.members) :
      (j < k /\ IsStandard(n.members[j]))
        => /\ IsStandard(n.members[k])
           /\ StandardIndex(n.members[j].name) < StandardIndex(n.members[k].name)

\* C2 (as stated): within every category (builtins, the values and subkeys
\* of the defines, events and their parameters, classes and their methods
\* and attributes, concepts and their options and parameters, variant
\* groups, global objects) the entities are emitted in ascending order of
\* their order fields, entities of equal order in their order in the schema.
C2_OrderRespected == returned # <<>> => OrderRespected(LAMBDA m: TRUE)

\* C2 (amended): as C2, except for the members valid, object_name and help
\* of a class: where they are emitted they follow every other member of the
\* class, in the order valid, object_name, help, whatever their order fields.
C2_OrderRespectedButStandardMembers ==
  returned # <<>> => OrderRespected(LAMBDA m: ~IsStandard(m)) /\ StandardMembersLast

\* A returned file in which the events stand in another order than in the
\* schema, two events of equal order keep their order, and the attribute
\* valid of a class follows an attribute of a greater order field.
C2_Witness ==
  /\ pc = "done"
  /\ \E p, q \in 1..Len(loaded.events) :
       /\ p < q /\ loaded.events[p].order > loaded.events[q].order
       /\ Named(Out, getMappedEventName(loaded.events[p])) # <<>>
  /\ \E p, q \in 1..Len(loaded.events) :
       p < q /\ loaded.events[p].order = loaded.events[q].order
  /\ \E c \in Range(loaded.classes) : \E n \in Range(ClassBodies(c)) :
       \E a, b \in Range(c.attributes) :
         /\ a.name = <<"valid">> /\ a.order < b.order
         /\ Has(n.members, a, ByName) /\ Has(n.members, b, ByName)
         /\ Pos(n.members, b, ByName) < Pos(n.members, a, ByName)

\* C3: generation run twice over the same schema and the same manual
\* definitions (a second generator over the same schema object, or a second
\* call of generateDeclarations) returns the file the first run returned.
C3_Idempotent == \A k \in 1..Len(returned) : returned[k] = returned[1]

\* C4: generation does not write to the schema: after generateDeclarations
\* every list of the schema has the order it had and every entity (the
\* types of the parameters of the events included) the field values it had.
C4_SchemaUnchanged == pc = "done" => apiDocs = loaded

\* -- enumerations
RECURSIVE LeafEnums(_)
LeafEnums(defs) ==
  UNION {IF defs[k].hasValues THEN {defs[k]}
         ELSE IF defs[k].hasSubkeys THEN LeafEnums(defs[k].subkeys)
         ELSE {} : k \in 1..Len(defs)}

RECURSIVE EnumNodes(_)
EnumNodes(nodes) ==
  UNION {IF nodes[k].kind = "EnumDeclaration" THEN {nodes[k]}
         ELSE EnumNodes(nodes[k].members) : k \in 1..Len(nodes)}

EmittedEnums(d) == {n \in EnumNodes(Named(Out, <<"defines">>)) : n.name = d.name}

\* C5: for every enumeration of the defines with n values the emitted enum
\* has n members that carry the numbers 0..n-1 by their position in the
\* values sorted by order, whatever value the schema gives them.
C5_EnumNumbers ==
  returned # <<>> =>
    \A d \in LeafEnums(loaded.defines) :
      /\ EmittedEnums(d) # {}
      /\ \A n \in EmittedEnums(d) :
           /\ Len(n.members) = Len(d.values)
           /\ \A k \in 1..Len(n.members) :
                /\ n.members[k].num = k - 1
                /\ n.members[k].name = ArraySort(d.values)[k].name

\* An emitted enumeration of three members, one of which carries another
\* number than the value the schema gives it.
C5_Witness ==
  /\ pc = "done"
  /\ \E d \in LeafEnums(loaded.defines) : \E n \in EmittedEnums(d) :
       /\ Len(n.members) = 3
       /\ \E k \in 1..3 : \E v \in Range(d.values) :
            v.name = n.members[k].name /\ v.value # n.members[k].num

\* -- variant groups
\* The shapes with variant groups that are expanded: the concepts of
\* category table or filter, and the methods that take a table and have no
\* manual definition.
VariantShapes ==
  {[name |-> Join(c.name), v |-> c] :
     c \in {c \in Range(loaded.concepts) :
              c.hasGroups /\ c.category \in {"table", "filter"}}}
  \cup UNION {{[name |-> MethodTypeName(c, m), v |-> m] :
                 m \in {m \in Range(c.methods) :
                          /\ m.hasGroups /\ m.takes_table
                          /\ m.name # <<"help">>
                          /\ existingMember(Lookup(manualDefinitionsSource, c.name),
                                            m.name) = <<>>}} :
                c \in Range(loaded.classes)}

NamesOf(L) == [k \in 1..Len(L) |-> L[k].name]

PropertyNames(parameters) ==
  [k \in 1..Len(parameters) |-> escapePropertyName(ArraySort(parameters)[k].name)]

BaseExpanded(name, v) ==
  /\ Len(Named(Out, <<"Base" \o name>>)) = 1
  /\ Named(Out, <<"Base" \o name>>)[1].kind = "InterfaceDeclaration"
  /\ Named(Out, <<"Base" \o name>>)[1].supers = <<>>
  /\ NamesOf(Named(Out, <<"Base" \o name>>)[1].members) = PropertyNames(v.parameters)

GroupExpanded(name, v, g) ==
  /\ Len(Named(Out, <<groupName(name, g)>>)) = 1
  /\ LET n == Named(Out, <<groupName(name, g)>>)[1]
     IN /\ n.kind = "InterfaceDeclaration"
        /\ NamesOf(n.supers) = <<<<"Base" \o name>>>>
        /\ NamesOf(n.members) = <<<<v.discriminator>>>> \o PropertyNames(g.parameters)
        /\ n.members[1].args =
             <<IF Len(g.name) > 1 /\ g.name[1] = "defines"
                 THEN [Node("TypeReference", g.name) EXCEPT !.args = <<>>]
                 ELSE Node("StringLiteral", <<Join(g.name)>>)>>

UnionExpanded(name, v) ==
  /\ Len(Named(Out, <<name>>)) = 1
  /\ Named(Out, <<name>>)[1].kind = "TypeAliasDeclaration"
  /\ Len(Named(Out, <<name>>)[1].args) = 1
  /\ Named(Out, <<name>>)[1].args[1].kind = "UnionType"
  /\ [k \in 1..Len(Named(Out, <<name>>)[1].args[1].args) |->
        <<Named(Out, <<name>>)[1].args[1].args[k].kind,
          Named(Out, <<name>>)[1].args[1].args[k].name>>]
     = [k \in 1..Len(v.variant_parameter_groups) |->
          <<"TypeReference", <<groupName(name, ArraySort(v.variant_parameter_groups)[k])>>>>]

\* C6: a shape with base parameters B, k groups and a discriminator is
\* expanded to exactly one base interface with the fields of B, one
\* interface per group that extends the base, narrows the discriminator to
\* the string literal of the name of the group (to a reference to the define
\* when the name is one of the defines) and holds the parameters of the
\* group, and the type alias of the union of exactly these k interfaces in
\* the order of the order fields of the groups.
C6_VariantExpansion ==
  returned # <<>> =>
    \A s \in VariantShapes :
      s.v.discriminator # "" =>
        /\ BaseExpanded(s.name, s.v)
        /\ \A g \in Range(s.v.variant_parameter_groups) : GroupExpanded(s.name, s.v, g)
        /\ UnionExpanded(s.name, s.v)

\* A returned file with an expanded shape one of whose groups is named by a
\* define and whose groups stand in another order than in the schema.
C6_Witness ==
  /\ pc = "done"
  /\ \E s \in VariantShapes :
       /\ s.v.discriminator # ""
       /\ Named(Out, <<s.name>>) # <<>>
       /\ \E g \in Range(s.v.variant_parameter_groups) : Len(g.name) > 1
       /\ ArraySort(s.v.variant_parameter_groups) # s.v.variant_parameter_groups

\* -- classes with an index operator
HasIndexOperator(c) == \E o \in Range(c.operators) : o.name = <<"index">>

\* The manual definition of class c: a sequence of length 0 or 1.
Override(c) == Lookup(manualDefinitionsSource, c.name)

\* The supertypes Array<T> / ReadonlyArray<T> of the manual interface of c.
ArraySupers(c) ==
  IF Override(c) # <<>> /\ Override(c)[1].kind = "interface"
    THEN Filter(LAMBDA t: t.name \in {<<"Array">>, <<"ReadonlyArray">>},
                Override(c)[1].supertypes)
    ELSE <<>>

\* The manual definition of c is a type alias with an index operator.
HasIndexShape(c) ==
  Override(c) # <<>> /\ Override(c)[1].kind = "type" /\ Override(c)[1].indexOperator # ""

\* The top-level declarations of class c.
Declarations(c) ==
  Filter(LAMBDA n: n.name \in {c.name, Suffixed(c.name, "Members"),
                               Suffixed(c.name, "Index")}, Out)

IndexSignatures(n) == Filter(LAMBDA m: m.kind = "IndexSignature", n.members)

\* The class is declared as the intersection of its members and its index.
IsSplit(c) ==
  /\ Len(Declarations(c)) = 3
  /\ Declarations(c)[1].kind = "InterfaceDeclaration"
  /\ Declarations(c)[1].name = Suffixed(c.name, "Members")
  /\ Declarations(c)[2].kind \in {"InterfaceDeclaration", "TypeAliasDeclaration"}
  /\ Declarations(c)[2].name = Suffixed(c.name, "Index")
  /\ Declarations(c)[3].kind = "TypeAliasDeclaration"
  /\ Declarations(c)[3].name = c.name
  /\ Len(Declarations(c)[3].args) = 1
  /\ Declarations(c)[3].args[1].kind = "IntersectionType"
  /\ NamesOf(Declarations(c)[3].args[1].args)
     = <<Suffixed(c.name, "Members"), Suffixed(c.name, "Index")>>

\* The class is one interface; indexed tells whether it holds an index
\* signature.
IsSingle(c, indexed) ==
  /\ Len(Declarations(c)) = 1
  /\ Declarations(c)[1].kind = "InterfaceDeclaration"
  /\ Declarations(c)[1].name = c.name
  /\ Len(IndexSignatures(Declarations(c)[1])) = (IF indexed THEN 1 ELSE 0)

Mismatches ==
  UNION {{[class |-> c.name, member |-> m.name, expected |-> "a property signature",
           got |-> existingMember(Override(c), m.name)[1].kind] :
            m \in {a \in Range(c.attributes) :
                     /\ existingMember(Override(c), a.name) # <<>>
                     /\ existingMember(Override(c), a.name)[1].kind # "PropertySignature"}}
         \cup
         {[class |-> c.name, member |-> m.name, expected |-> "a method signature",
           got |-> existingMember(Override(c), m.name)[1].kind] :
            m \in {a \in Range(c.methods) :
                     /\ existingMember(Override(c), a.name) # <<>>
                     /\ existingMember(Override(c), a.name)[1].kind # "MethodSignature"}} :
           c \in Range(loaded.classes)}

ConflictMessage(x) ==
  "Manual define for " \o Join(x.class) \o "." \o Join(x.member) \o " should be "
  \o x.expected \o ", got " \o x.got \o " instead"

\* C8: when the manual definition of a class has a member named as an
\* attribute or a method of the class but of another shape (not a property
\* signature for an attribute, not a method signature for a method), the
\* run ends with the error that names the class and the member: no run with
\* such a member ends successfully.
C8_MergeConflict ==
  (Mismatches # {} /\ pc \in {"done", "aborted"})
    => pc = "aborted" /\ \E x \in Mismatches : error = ConflictMessage(x)

\* -- errors
\* The schema entities of list S declared in L form a prefix of the sorted
\* list: none is declared after one that is not.
PrefixDeclared(S, L, Is(_, _)) ==
  \A p, q \in 1..Len(S) :
    (p < q /\ Has(L, ArraySort(S)[q], Is)) => Has(L, ArraySort(S)[p], Is)

IsBuiltin(b, n) == n.name = b.name \/ b.name \in {<<"boolean">>, <<"string">>}

\* The category the run was in when it stopped.
Stage(L) ==
  IF \E k \in 1..Len(L) : L[k].kind = "EmptyStatement"
    THEN Rank(L[CHOOSE k \in 1..Len(L) :
                  /\ L[k].kind = "EmptyStatement"
                  /\ \A j \in (k + 1)..Len(L) : L[j].kind # "EmptyStatement"])
    ELSE 0

Stopped(L) ==
  /\ \A k \in 1..Len(L) : Rank(L[k]) <= Stage(L)
  /\ PrefixDeclared(loaded.builtin_types, L, IsBuiltin)
  /\ PrefixDeclared(loaded.events, L, LAMBDA e, n: n.name = getMappedEventName(e))
  /\ PrefixDeclared(loaded.classes, L, ByName)
  /\ PrefixDeclared(loaded.concepts, L, ByName)
  /\ PrefixDeclared(loaded.global_objects, L, ByName)

\* C9: once an error is thrown during generation no further entity is
\* processed (the entities declared are those that precede the failing one,
\* nothing of a later category is in the list) and generateDeclarations
\* returns nothing: the list is not printed.
C9_FailFast ==
  (error # "" /\ pc # "failed")
    => /\ pc = "aborted"
       /\ returned = <<>>
       /\ Stopped(printFile(manualDefinitions, statements))

\* A run stopped in the classes, after the declaration of one class and
\* before that of another.
C9_Witness ==
  /\ pc = "aborted"
  /\ \E c, d \in Range(loaded.classes) :
       /\ Named(statements, c.name) # <<>>
       /\ Named(statements, d.name) = <<>>
       /\ Named(statements, Suffixed(d.name, "Members")) = <<>>

\* C10: when the application of the schema is not "factorio" or its
\* api_version is not 1 the constructor throws before the manual
\* definitions are processed and before anything is appended to the
\* statements.
C10_ConstructorRejects ==
  (loaded.application # "factorio" \/ loaded.api_version # 1)
    => /\ pc \in {"new", "failed"}
       /\ pc = "failed" => error # ""
       /\ manualDefinitions = <<>>
       /\ statements = <<>>
       /\ returned = <<>>

\* A constructor that threw for the api_version, given manual definitions.
C10_Witness ==
  /\ pc = "failed"
  /\ loaded.application = "factorio"
  /\ loaded.api_version # 1
  /\ manualDefinitionsSource # <<>>

\* -- manual definitions in the output
\* The references to nodes of the manual definitions that the node n holds
\* (n itself, its type arguments, its members), by their path in the store.
RECURSIVE ManualRefs(_)
ManualRefs(n) ==
  (IF n.kind = "ManualNode" THEN <<n.name>> ELSE <<>>)
  \o Concat([k \in 1..Len(n.args) |-> ManualRefs(n.args[k])])
  \o Concat([k \in 1..Len(n.members) |-> ManualRefs(n.members[k])])

\* The manual nodes in the statement list, in order of occurrence.
Emitted == Concat([k \in 1..Len(statements) |-> ManualRefs(statements[k])])

\* The node at path q is the node at path p or lies inside it.
Within(p, q) == Len(p) <= Len(q) /\ SubSeq(q, 1, Len(p)) = p

\* No node of the list E stands in it twice, by itself or inside another.
Once(E) == \A j, k \in 1..Len(E) : j # k => ~Within(E[j], E[k])

\* C11: a node of the manual definitions stands at most once in the
\* statement list: a definition (or a member of it) that a stage reused for
\* a schema entity is not pushed again, neither by itself nor inside its
\* definition, by generateAdditionalTypes.
C11_EmittedOnce == Once(Emitted)

\* A returned file that holds a manual definition reused for a concept, a
\* manual member reused for an attribute of a class, a manual definition
\* reused inside the defines and a manual definition that matched nothing.
C11_Witness ==
  /\ pc = "done"
  /\ {<<"LocalisedString">>, <<"LuaA", "name">>, <<"defines", "flow">>, <<"Extra">>}
       \subseteq Range(Emitted)

\* -- warnings
\* The inputs without a condition that is an error: their conditions, if
\* any, are those the generator warns of.
AdvisoryOnly ==
  /\ manualDefinitionsSource \in Stores
  /\ \/ \E ord \in [Slots -> Orders] : loaded = Schema(ord)
     \/ loaded \in OddSchemas
     \/ loaded = DanglingLink

\* The concepts of category concept without a manual definition.
OpaqueConcepts ==
  {c \in Range(loaded.concepts) :
     c.category = "concept" /\ Lookup(manualDefinitionsSource, c.name) = <<>>}

\* The defines below the root with neither values nor subkeys and without a
\* manual definition.
IncompleteDefines ==
  {d \in Range(loaded.defines) :
     /\ ~d.hasValues /\ ~d.hasSubkeys
     /\ existingMember(Lookup(manualDefinitionsSource, <<"defines">>), d.name) = <<>>}

\* The parameters of concept c that are synthesized as dictionaries whose
\* key is not a name, or is a name other than string, number, a define or a
\* numeric builtin.
LooseDictionaries(c) ==
  {p \in Range(c.parameters) :
     /\ c.category = "table" /\ ~c.hasGroups
     /\ existingMember(Lookup(manualDefinitionsSource, c.name), p.name) = <<>>
     /\ p.type.complex_type = "dictionary"
     /\ \/ p.type.args[1].complex_type # ""
        \/ /\ p.type.args[1].name \notin {<<"string">>, <<"number">>}
           /\ ~StartsWithDefines(p.type.args[1].name)
           /\ p.type.args[1].name \notin
                Names(loaded.builtin_types) \ {<<"boolean">>, <<"string">>, <<"table">>}}

\* The classes with an index operator whose manual definition neither
\* extends an array nor is a type alias with an index operator.
UnindexedClasses ==
  {c \in Range(loaded.classes) :
     HasIndexOperator(c) /\ ArraySupers(c) = <<>> /\ ~HasIndexShape(c)}

\* The links in the descriptions of the classes to names the schema does
\* not have.
DanglingLinks ==
  UNION {{l \in Range(c.description.links) :
            l.href = "ref" /\ l.target \notin DOMAIN typeNames} :
           c \in Range(loaded.classes)}

\* Every condition of the input that the generator warns of is in the log.
Reported(L) ==
  /\ \A c \in OpaqueConcepts :
       "No concept definition given for " \o Join(c.name) \o "." \in Range(L)
  /\ \A d \in IncompleteDefines :
       "Incomplete define for defines." \o Join(d.name) \in Range(L)
  /\ \A c \in Range(loaded.concepts) :
       LooseDictionaries(c) # {} =>
         "Not typescript indexable type for key in dictionary complex type: " \in Range(L)
  /\ \A c \in UnindexedClasses :
       "No index operator manual definition for class " \o Join(c.name) \in Range(L)
  /\ docs => \A l \in DanglingLinks :
                "unresolved doc reference: " \o Join(l.target) \in Range(L)

\* The entity of each such condition is declared with its fallback.
FallenBack(L) ==
  /\ \A c \in OpaqueConcepts :
       \E n \in Range(Named(L, c.name)) :
         n.kind = "TypeAliasDeclaration" /\ n.args = <<TypesUnknown>>
  /\ \A d \in IncompleteDefines :
       \E n \in Range(Named(L, <<"defines">>)) : \E m \in Range(Named(n.members, d.name)) :
         m.kind = "TypeAliasDeclaration" /\ m.args = <<TypesUnknown>>
  /\ \A c \in Range(loaded.concepts) : \A p \in LooseDictionaries(c) :
       \E n \in Range(Named(L, c.name)) : \E m \in Range(Named(n.members, p.name)) :
         m.args[1].kind = "TypeReference" /\ m.args[1].name = <<"LuaTable">>
  /\ \A c \in UnindexedClasses : IsSingle(c, FALSE)
  /\ \A c \in Range(loaded.classes) :
       (\E l \in DanglingLinks : l \in Range(c.description.links)) => Declarations(c) # <<>>

\* Every entity of the schema that is declared under its name is declared.
Complete(L) ==
  /\ \A b \in Range(loaded.builtin_types) : Has(L, b, IsBuiltin)
  /\ \A e \in Range(loaded.events) : Named(L, getMappedEventName(e)) # <<>>
  /\ \A c \in Range(loaded.classes) : Named(L, c.name) # <<>>
  /\ \A c \in Range(loaded.concepts) : Named(L, c.name) # <<>>
  /\ \A g \in Range(loaded.global_objects) : Named(L, g.name) # <<>>

\* C12: a condition the generator warns of (a concept of category concept
\* without manual definition, a define with neither values nor subkeys, a
\* dictionary key that is not indexable, an index operator without manual
\* index, a link that resolves to nothing) never aborts the run: a run over
\* an input with such conditions only is never aborted, and in the file a
\* run returns every such condition of the input is logged, its entity is
\* declared with the fallback, and every entity of the schema is declared.
C12_AdvisoryContinues ==
  /\ AdvisoryOnly => pc # "aborted"
  /\ pc = "done" => Reported(log) /\ FallenBack(Out) /\ Complete(Out)

\* A returned file of a run that logged a warning of each of the five kinds.
C12_Witness ==
  /\ pc = "done"
  /\ docs
  /\ OpaqueConcepts # {}
  /\ IncompleteDefines # {}
  /\ \E c \in Range(loaded.concepts) : LooseDictionaries(c) # {}
  /\ UnindexedClasses # {}
  /\ DanglingLinks # {}
  /\ Len(log) >= 5

\* -- documentation urls
DocUrlBase == "https://lua-api.factorio.com/" \o loaded.application_version \o "/"

\* The url of the page of class c and of the entry of concept c.
ClassUrl(c) ==
  DocUrlBase \o (IF EndsWithControlBehavior(Join(c.name))
                   THEN "LuaControlBehavior.html#" \o Join(c.name)
                   ELSE Join(c.name) \o ".html")

ConceptUrl(c) == DocUrlBase \o "Concepts.html#" \o Join(c.name)

\* The urls in the documentation of the members of the declarations L that
\* are named as one of the schema members S.
MemberUrls(L, S) ==
  UNION {UNION {{[member |-> m.name, url |-> m.comments[k].url] :
                   k \in {j \in 1..Len(m.comments) : m.comments[j].url # ""}} :
                  m \in {x \in Range(n.members) : x.name \in Names(S)}} :
           n \in Range(L)}

\* The containers whose members are documented under <container>.<member>:
\* the classes (attributes and methods) and the concepts of category struct
\* (attributes), each with the url the container resolves to.
Containers ==
  {[name |-> c.name, url |-> ClassUrl(c),
    urls |-> MemberUrls(ClassBodies(c), c.attributes \o c.methods)] :
     c \in Range(loaded.classes)}
  \cup {[name |-> c.name, url |-> ConceptUrl(c),
          urls |-> MemberUrls(Named(Out, c.name), c.attributes)] :
           c \in {x \in Range(loaded.concepts) : x.category = "struct"}}

\* C13 (as stated): the url of a reference <container>.<member> that is in
\* no set is the url of the container, then "#", then the member alone.
C13_MemberSuffix ==
  returned # <<>> =>
    \A c \in Containers : \A u \in c.urls : u.url = c.url \o "#" \o Join(u.member)

\* C13 (amended): the url of a reference <container>.<member> that is in no
\* set is the url that the part before the first separator resolves to,
\* then "#", then the whole reference.
C13_WholeReference ==
  returned # <<>> =>
    \A c \in Containers : \A u \in c.urls :
      u.url = c.url \o "#" \o Join(c.name) \o "." \o Join(u.member)

\* A returned file with documented members of a class, of a class whose
\* name ends in ControlBehavior and of a concept of category struct.
C13_Witness ==
  /\ pc = "done"
  /\ \E c \in Containers : c.urls # {} /\ c.name = <<"LuaB">>
  /\ \E c \in Containers : c.urls # {} /\ c.name = <<"LuaLampControlBehavior">>
  /\ \E c \in Containers : c.urls # {} /\ c.name = <<"Color">>

\* -- dictionaries
\* The builtins of the schema that generateBuiltins declares as numbers.
NumericBuiltins ==
  Names(loaded.builtin_types) \ {<<"boolean">>, <<"string">>, <<"table">>}

\* The key is a name that is string, number, a define or a numeric builtin.
IndexableKey(key) ==
  /\ key.complex_type = ""
  /\ \/ key.name \in {<<"string">>, <<"number">>}
     \/ StartsWithDefines(key.name)
     \/ key.name \in NumericBuiltins

\* The parameters of concept c that are synthesized from a dictionary type.
Dictionaries(c) ==
  {p \in Range(c.parameters) :
     /\ c.category = "table" /\ ~c.hasGroups
     /\ existingMember(Lookup(manualDefinitionsSource, c.name), p.name) = <<>>
     /\ p.type.complex_type = "dictionary"}

\* The number of elements of L that are w.
Count(L, w) == Cardinality({k \in 1..Len(L) : L[k] = w})

\* The type the dictionary parameter p of concept c has in L is `name` of
\* two type arguments.
MappedTo(L, c, p, name) ==
  /\ Named(L, c.name) # <<>>
  /\ \A n \in Range(Named(L, c.name)) :
       /\ Named(n.members, p.name) # <<>>
       /\ \A m \in Range(Named(n.members, p.name)) :
            /\ m.args[1].kind = "TypeReference"
            /\ m.args[1].name = <<name>>
            /\ Len(m.args[1].args) = 2

\* C14: a dictionary is mapped to Record<key, value> exactly when its key
\* is a name that is string, number, a define or a numeric builtin of the
\* schema, and to LuaTable<key, value> with one warning otherwise; every
\* numeric builtin of the schema is in this.numericTypes in every stage
\* after generateBuiltins, the stages that map types.
C14_DictionaryKeys ==
  /\ pc \in {"defines", "events", "classes", "class", "concept", "additional", "print", "done"}
       => numericTypes = NumericBuiltins
  /\ returned # <<>> =>
       \A c \in Range(loaded.concepts) : \A p \in Dictionaries(c) :
         MappedTo(Out, c, p, IF IndexableKey(p.type.args[1]) THEN "Record" ELSE "LuaTable")
  /\ pc = "done" =>
       Count(log, "Not typescript indexable type for key in dictionary complex type: ")
       = Cardinality(UNION {{p \in Dictionaries(c) : ~IndexableKey(p.type.args[1])} :
                              c \in Range(loaded.concepts)})

\* A returned file with dictionaries keyed by string, by a numeric builtin,
\* by a define, by a builtin that is not numeric, by a class and by an array.
C14_Witness ==
  /\ pc = "done"
  /\ \E c \in Range(loaded.concepts) :
       /\ \E p \in Dictionaries(c) : p.type.args[1].name = <<"string">>
       /\ \E p \in Dictionaries(c) : p.type.args[1].name \in NumericBuiltins
       /\ \E p \in Dictionaries(c) : StartsWithDefines(p.type.args[1].name)
       /\ \E p \in Dictionaries(c) : p.type.args[1].name = <<"boolean">>
       /\ \E p \in Dictionaries(c) : p.type.args[1].complex_type = "array"
       /\ \E p \in Dictionaries(c) : p.type.args[1].name = <<"LuaA">>

\* -- attributes
\* The attributes of the classes and of the concepts of category struct that
\* have no member of their name in the manual definition, each with the
\* members of that name in the declarations of its class or concept.
Synthesized ==
  UNION {{[attribute |-> a,
           members |-> UNION {Range(Named(n.members, a.name)) : n \in Range(ClassBodies(c))}] :
            a \in {x \in Range(c.attributes) : existingMember(Override(c), x.name) = <<>>}} :
           c \in Range(loaded.classes)}
  \cup
  UNION {{[attribute |-> a,
           members |-> UNION {Range(Named(n.members, a.name)) : n \in Range(Named(Out, c.name))}] :
            a \in {x \in Range(c.attributes) : existingMember(Override(c), x.name) = <<>>}} :
           c \in {x \in Range(loaded.concepts) : x.category = "struct"}}

IsSetter(m) ==
  m.kind = "SetAccessor" /\ Len(m.members) = 1 /\ m.members[1].kind = "Parameter"

IsPropertyOf(m, readonly) ==
  m.kind = "PropertySignature" /\ m.mods = (IF readonly THEN <<"readonly">> ELSE <<>>)

\* C15: an attribute without a manual member of its name is synthesized as
\* a setter of one parameter exactly when it is write-only (write set, read
\* clear); every other attribute is synthesized as a property, read-only
\* exactly when its write flag is clear.
C15_AttributeShape ==
  returned # <<>> =>
    \A s \in Synthesized : \A m \in s.members :
      IF s.attribute.write /\ ~s.attribute.read THEN IsSetter(m)
      ELSE IsPropertyOf(m, ~s.attribute.write)

\* -- help, valid and object_name
\* The members of class c named help (a method), valid and object_name
\* (attributes).
Triad(c) ==
  {m \in Range(c.methods) : m.name = <<"help">>}
  \cup {a \in Range(c.attributes) : a.name \in {<<"valid">>, <<"object_name">>}}

\* Class c carries a help method, a boolean attribute valid and a string
\* attribute object_name.
HasTriad(c) ==
  /\ \E m \in Range(c.methods) : m.name = <<"help">>
  /\ \E a \in Range(c.attributes) :
       a.name = <<"valid">> /\ a.type = TName(<<"boolean">>)
  /\ \E a \in Range(c.attributes) :
       a.name = <<"object_name">> /\ a.type = TName(<<"string">>)

ExtendsLuaObject(n) == \E k \in 1..Len(n.supers) : n.supers[k].name = <<"LuaObject">>

\* C16: the members help, valid and object_name of a class are replaced by
\* the supertype LuaObject exactly when the class carries all three, valid
\* being boolean and object_name string: then none of the three is a member
\* of the declaration; otherwise each one the class carries is a member and
\* the declaration does not extend LuaObject.
C16_StandardMembers ==
  returned # <<>> =>
    \A c \in Range(loaded.classes) :
      /\ ClassBodies(c) # <<>>
      /\ \A n \in Range(ClassBodies(c)) :
           IF HasTriad(c)
             THEN ExtendsLuaObject(n) /\ \A m \in Triad(c) : Named(n.members, m.name) = <<>>
             ELSE ~ExtendsLuaObject(n) /\ \A m \in Triad(c) : Named(n.members, m.name) # <<>>

\* -- table_or_array
\* The two shapes of the union that the type alias n declares.
Shapes(n) == n.args[1].args

\* The members list the parameters P in the order of their order fields,
\* each with its optionality; Is tells that a member is named as a parameter.
ListsParameters(members, P, Is(_, _)) ==
  /\ Len(members) = Len(P)
  /\ \A k \in 1..Len(P) :
       Is(ArraySort(P)[k], members[k]) /\ members[k].opt = ArraySort(P)[k].optional

\* C17: a concept of category table_or_array is declared as the union of a
\* type literal and of a tuple over the same parameters: both list the
\* parameters in the order of their order fields, each with the same
\* optionality and the same type in both.
C17_TableOrArray ==
  returned # <<>> =>
    \A c \in {x \in Range(loaded.concepts) : x.category = "table_or_array"} :
      /\ Len(Named(Out, c.name)) = 1
      /\ \A n \in Range(Named(Out, c.name)) :
           /\ n.kind = "TypeAliasDeclaration"
           /\ n.args[1].kind = "UnionType"
           /\ Len(Shapes(n)) = 2
           /\ Shapes(n)[1].kind = "TypeLiteral"
           /\ Shapes(n)[2].kind = "TupleType"
           /\ ListsParameters(Shapes(n)[1].members, c.parameters, IsProperty)
           /\ ListsParameters(Shapes(n)[2].members, c.parameters, ByName)
           /\ \A k \in 1..Len(c.parameters) :
                Shapes(n)[1].members[k].args = Shapes(n)[2].members[k].args

\* -- manual definitions of the defines
\* The manual definition of the child `name` of a node whose manual
\* definition is `existing`: a sequence of length 0 or 1.
ChildOverride(existing, name) ==
  IF existing = <<>> THEN <<>> ELSE Lookup(existing[1].members, name)

\* The nodes of the tree below `define` (itself included, at `depth`) whose
\* manual definition is of another shape: not an enum for a node with
\* values, not a namespace for a node with subkeys.
RECURSIVE MisShaped(_, _, _)
MisShaped(define, existing, depth) ==
  IF define.hasValues THEN
    IF existing # <<>> /\ existing[1].kind # "enum"
      THEN {[name |-> define.name, depth |-> depth]} ELSE {}
  ELSE IF define.hasSubkeys THEN
    IF existing # <<>> /\ existing[1].kind # "namespace"
      THEN {[name |-> define.name, depth |-> depth]}
      ELSE UNION {MisShaped(define.subkeys[k],
                            ChildOverride(existing, define.subkeys[k].name), depth + 1) :
                    k \in 1..Len(define.subkeys)}
  ELSE {}

MisShapedDefines ==
  MisShaped(rootDefine(loaded), Lookup(manualDefinitionsSource, <<"defines">>), 0)

\* The defines below the root with neither values nor subkeys that have a
\* manual definition in the namespace `defines` of the store.
ManualDefines ==
  {d \in Range(loaded.defines) :
     /\ ~d.hasValues /\ ~d.hasSubkeys
     /\ ChildOverride(Lookup(manualDefinitionsSource, <<"defines">>), d.name) # <<>>}

\* The run was aborted in generateDefines: the section comment is the last
\* statement.
AbortedInDefines ==
  /\ pc = "aborted"
  /\ error # ""
  /\ statements # <<>>
  /\ statements[Len(statements)] = createComment(" Defines")

\* C18: when, at any depth of the defines, the manual definition of a node
\* with subkeys is not a namespace or that of a node with values is not an
\* enum, the run is aborted in generateDefines; the manual definition of a
\* node is the member, by the name of the node, of the manual definition of
\* its parent (a define with neither values nor subkeys is declared by the
\* manual member of its name).
C18_DefinesShape ==
  /\ MisShapedDefines # {} =>
       \/ pc \in {"new", "constructed", "builtins", "defines"}
       \/ AbortedInDefines
  /\ pc = "done" => \A d \in ManualDefines : <<"defines">> \o d.name \in Range(Emitted)

\* A run aborted for a manual definition two levels below the root.
C18_Witness ==
  /\ AbortedInDefines
  /\ \E x \in MisShapedDefines : x.depth = 2

\* -- manual definitions that are lost
\* The manual definition def of a class is used for the declaration of the
\* class: its supertypes are supertypes of the declaration, or its index
\* operator is the index of the class.
UsedByClass(def) ==
  \E c \in Range(loaded.classes) :
    /\ c.name = def.name
    /\ \/ /\ def.supertypes # <<>>
           /\ \E n \in Range(ClassBodies(c)) : Range(def.supertypes) \subseteq Range(n.supers)
       \/ def.indexOperator # "" /\ HasIndexOperator(c) /\ IsSplit(c)

\* The manual definition def is in the statement list: by itself, by one
\* of the nodes inside it, or by what the declaration of its class takes of
\* it.
Present(def) ==
  \/ \E k \in 1..Len(Emitted) : Within(def.name, Emitted[k])
  \/ UsedByClass(def)

\* C19: after a run that returned, every manual definition of the store is
\* in the output: reused by the stage that declares the schema entity of
\* its name, or pushed by generateAdditionalTypes.
C19_NoDefinitionLost ==
  pc = "done" => \A def \in Range(manualDefinitionsSource) : Present(def)

\* -- the paths of the defines
\* The documentation urls of node n.
Urls(n) == {n.comments[k].url : k \in {j \in 1..Len(n.comments) : n.comments[j].url # ""}}

\* The url that the reference to the qualified name q resolves to.
UrlOf(q) == getDocumentationUrl(This, q).url

\* The nodes declared for the defines defs, which are below the node of
\* qualified name prefix, and for their values use no other reference in
\* their documentation than their qualified name.
RECURSIVE QualifiedPaths(_, _, _)
QualifiedPaths(defs, nodes, prefix) ==
  \A k \in 1..Len(defs) : \A n \in Range(Named(nodes, defs[k].name)) :
    /\ Urls(n) \subseteq {UrlOf(prefix \o defs[k].name)}
    /\ IF defs[k].hasValues THEN
         \A v \in Range(defs[k].values) : \A m \in Range(Named(n.members, v.name)) :
           Urls(m) \subseteq {UrlOf(prefix \o defs[k].name \o v.name)}
       ELSE IF defs[k].hasSubkeys THEN
         QualifiedPaths(defs[k].subkeys, n.members, prefix \o defs[k].name)
       ELSE TRUE

\* C20: in a file generated with docs, every node of the defines tree is
\* documented under the path of the names from the root down to it, each
\* name once, which is the name addDefine registered for it; its values
\* are documented under that path and their name.  (The root has no
\* description, and with it no documentation and no reference.)
C20_DefinePaths ==
  (pc = "done" /\ docs) =>
    \A root \in Range(Named(Out, <<"defines">>)) :
      QualifiedPaths(loaded.defines, root.members, <<"defines">>)

\* -- the new-version-diff script
\* The script is over: it ran to its end, or an error ended it.
Over == line \in {"exit", "thrown"}

\* The messages of the commits on branch b, oldest first.
MessagesOn(b) ==
  [k \in 1..Len(Filter(LAMBDA c: c.branch = b, commits)) |->
     Filter(LAMBDA c: c.branch = b, commits)[k].message]

\* s is an initial part of t.
IsPrefix(s, t) == Len(s) <= Len(t) /\ s = SubSeq(t, 1, Len(s))

\* C21: when the script is over, however it ended, the repository is on the
\* branch it was on at the start and the last command executed is the
\* checkout of that branch; the commits on new-version-diff are, in this
\* order, the one of the generator without link and the one of the diff
\* for the new version.
C21_BackOnBranch ==
  /\ Over =>
       /\ head = startBranch
       /\ executed # <<>>
       /\ executed[Len(executed)] = "git checkout " \o startBranch
  /\ \E v \in Versions \cup {""} :
       IsPrefix(MessagesOn("new-version-diff"),
                <<"Run generator without link", "Diff for factorio version " \o v>>)
====
